---- MODULE Spec2Model ----
(***************************************************************************)
(* Key-agreement core of zcrypto/tls (tls/key_agreement.go): the RSA, DHE  *)
(* and ECDHE key agreements, the signed-parameter authentication and the   *)
(* TLS 1.2 hash picker, modelled as state machines over wire bytes.        *)
(*                                                                         *)
(* Byte strings are sequences over 0..255.  Big integers are TLA+ integers.*)
(* Primitives of packages outside the repository (math/big, crypto/rsa,    *)
(* crypto/ecdsa, crypto/dsa, encoding/asn1, the hash functions) are        *)
(* modelled by small stand-ins that keep their interface and algebra; the  *)
(* 2048-bit MODP group is replaced by a group with a two-byte prime.       *)
(***************************************************************************)
EXTENDS Integers, Sequences, FiniteSets, TLC

VARIABLES config, hello, cert, srv, cli, skx, ckx, ret, pc, calls, role

vars == <<config, hello, cert, srv, cli, skx, ckx, ret, pc, calls, role>>

(***************************************************************************)
(* Bounds of the model.                                                    *)
(***************************************************************************)
\* longest clientHello.signatureAndHashes / supportedCurves list enumerated
MaxListLen == 2
\* number of calls the driver makes on one key-agreement object
MaxCalls == 2

(***************************************************************************)
(* Values.                                                                 *)
(***************************************************************************)
\* a nil *big.Int: a value no big.Int of the model takes (they are all >= -1)
Nil == -999
\* a nil []byte or a nil message pointer
NoBytes == <<-1>>
\* a nil error
ErrNil == "nil"
\* a nil key pointer
NoKey == [type |-> "nil"]

errClientKeyExchange == "tls: invalid ClientKeyExchange message"
errServerKeyExchange == "tls: invalid ServerKeyExchange message"
errNoCommonHash == "tls: client doesn't support any common hash functions"
errUnknownHash == "tls: unknown hash function used by peer"
errUnsupportedHash == "tls: unsupported hash function for ServerKeyExchange"
errNoCurves == "tls: no supported elliptic curves offered"
errPreferredUnsupported == "tls: preferredCurves includes unsupported curve"
errUnsupportedCurve == "tls: server selected unsupported curve"
errMissingSKX == "missing ServerKeyExchange message"
\* a Go run-time panic (nil dereference, rand.Int on a non-positive bound, panic())
Panic == "panic"

VersionSSL30 == 768
VersionTLS10 == 769
VersionTLS11 == 770
VersionTLS12 == 771

hashMD5 == 1
hashSHA1 == 2
hashSHA224 == 3
hashSHA256 == 4
hashSHA384 == 5
hashSHA512 == 6

signatureRSA == 1
signatureDSA == 2
signatureECDSA == 3

(***************************************************************************)
(* Byte-string helpers: Go slices, math/big Bytes/SetBytes.                *)
(***************************************************************************)
\* s[from:] with a zero-based index
Slice(s, from) == SubSeq(s, from + 1, Len(s))

\* s[:to]
Prefix(s, to) == SubSeq(s, 1, to)

\* byte(n>>8), byte(n): the 16-bit big-endian length prefix
U16(n) == <<(n \div 256) % 256, n % 256>>

\* int(k[0])<<8 | int(k[1])
ReadU16(k) == k[1] * 256 + k[2]

\* |n| for a big.Int
Abs(n) == IF n < 0 THEN 0 - n ELSE n

RECURSIVE NatBytes(_)
NatBytes(n) == IF n = 0 THEN <<>> ELSE Append(NatBytes(n \div 256), n % 256)

\* big.Int.Bytes(): the minimal big-endian bytes of |n|; zero is the empty string
Bytes(n) == NatBytes(Abs(n))

RECURSIVE SetBytes(_)
\* big.Int.SetBytes(b): b read as a big-endian unsigned integer
SetBytes(b) ==
    IF Len(b) = 0 THEN 0
    ELSE SetBytes(SubSeq(b, 1, Len(b) - 1)) * 256 + b[Len(b)]

RECURSIVE Flatten(_)
\* h.Write(slice) for each slice in turn: the concatenation
Flatten(slices) ==
    IF Len(slices) = 0 THEN <<>> ELSE Head(slices) \o Flatten(Tail(slices))

RECURSIVE ModExp(_, _, _)
\* big.Int.Exp(x, y, m) for y >= 0 and m >= 1
ModExp(x, y, m) ==
    IF y = 0 THEN 1 % m
    ELSE LET h == ModExp(x, y \div 2, m)
             sq == (h * h) % m
         IN IF y % 2 = 1 THEN (sq * (x % m)) % m ELSE sq

\* every sequence over S of length at most n
SeqsUpTo(S, n) == UNION {[1..k -> S] : k \in 0..n}

(***************************************************************************)
(* Hash functions (crypto/md5, sha1, sha256, sha512): stand-ins that tag   *)
(* a position-weighted checksum of the input with the hash identifier, so  *)
(* that different functions give different digests of the same input.      *)
(***************************************************************************)
RECURSIVE Checksum(_)
Checksum(data) ==
    IF Len(data) = 0 THEN 7
    ELSE (Checksum(SubSeq(data, 1, Len(data) - 1)) * 31 + data[Len(data)] + 1) % 251

md5Hash(slices) == <<hashMD5, Checksum(Flatten(slices))>>

sha1Hash(slices) == <<hashSHA1, Checksum(Flatten(slices))>>

\* the concatenation of the MD5 and the SHA1 digest
md5SHA1Hash(slices) == md5Hash(slices) \o sha1Hash(slices)

sha224Hash(slices) == <<hashSHA224, Checksum(Flatten(slices))>>

sha256Hash(slices) == <<hashSHA256, Checksum(Flatten(slices))>>

sha384Hash(slices) == <<hashSHA384, Checksum(Flatten(slices))>>

sha512Hash(slices) == <<hashSHA512, Checksum(Flatten(slices))>>

\* hashForServerKeyExchange honouring hashFunc below TLS 1.2 as well
hashForServerKeyExchangeAnyVersion(sigType, hashFunc, version, slices) ==
    CASE hashFunc = hashSHA512 ->
             [digest |-> sha512Hash(slices), hashFunc |-> "SHA512", err |-> ErrNil]
      [] hashFunc = hashSHA384 ->
             [digest |-> sha384Hash(slices), hashFunc |-> "SHA384", err |-> ErrNil]
      [] hashFunc = hashSHA256 ->
             [digest |-> sha256Hash(slices), hashFunc |-> "SHA256", err |-> ErrNil]
      [] hashFunc = hashSHA224 ->
             [digest |-> sha224Hash(slices), hashFunc |-> "SHA224", err |-> ErrNil]
      [] hashFunc = hashSHA1 ->
             [digest |-> sha1Hash(slices), hashFunc |-> "SHA1", err |-> ErrNil]
      [] hashFunc = hashMD5 ->
             [digest |-> md5Hash(slices), hashFunc |-> "MD5", err |-> ErrNil]
      [] OTHER ->
             IF version >= VersionTLS12
             THEN [digest |-> NoBytes, hashFunc |-> "0", err |-> errUnknownHash]
             ELSE IF sigType = signatureECDSA \/ sigType = signatureDSA
                  THEN [digest |-> sha1Hash(slices), hashFunc |-> "SHA1", err |-> ErrNil]
                  ELSE [digest |-> md5SHA1Hash(slices), hashFunc |-> "MD5SHA1", err |-> ErrNil]

\* returns (digest, crypto.Hash, error)
hashForServerKeyExchange(sigType, hashFunc, version, slices) ==
    IF version >= VersionTLS12
    THEN CASE hashFunc = hashSHA512 ->
                [digest |-> sha512Hash(slices), hashFunc |-> "SHA512", err |-> ErrNil]
           [] hashFunc = hashSHA384 ->
                [digest |-> sha384Hash(slices), hashFunc |-> "SHA384", err |-> ErrNil]
           [] hashFunc = hashSHA256 ->
                [digest |-> sha256Hash(slices), hashFunc |-> "SHA256", err |-> ErrNil]
           [] hashFunc = hashSHA224 ->
                [digest |-> sha224Hash(slices), hashFunc |-> "SHA224", err |-> ErrNil]
           [] hashFunc = hashSHA1 ->
                [digest |-> sha1Hash(slices), hashFunc |-> "SHA1", err |-> ErrNil]
           [] hashFunc = hashMD5 ->
                [digest |-> md5Hash(slices), hashFunc |-> "MD5", err |-> ErrNil]
           [] OTHER ->
                [digest |-> NoBytes, hashFunc |-> "0", err |-> errUnknownHash]
    ELSE IF sigType = signatureECDSA \/ sigType = signatureDSA
         THEN [digest |-> sha1Hash(slices), hashFunc |-> "SHA1", err |-> ErrNil]
         ELSE [digest |-> md5SHA1Hash(slices), hashFunc |-> "MD5SHA1", err |-> ErrNil]

(***************************************************************************)
(* signatureAndHash lists.                                                 *)
(***************************************************************************)
SigAndHash(h, s) == [hash |-> h, signature |-> s]

isSupportedSignatureAndHash(sigHash, sigHashes) ==
    \E i \in 1..Len(sigHashes) : sigHashes[i] = sigHash

RECURSIVE pickFrom(_, _, _, _)
\* the loop of pickTLS12HashForSignature from index i on
pickFrom(i, sigType, clientList, serverList) ==
    IF i > Len(clientList)
    THEN [hash |-> 0, err |-> errNoCommonHash]
    ELSE IF clientList[i].signature # sigType
         THEN pickFrom(i + 1, sigType, clientList, serverList)
         ELSE IF isSupportedSignatureAndHash(clientList[i], serverList)
              THEN [hash |-> clientList[i].hash, err |-> ErrNil]
              ELSE pickFrom(i + 1, sigType, clientList, serverList)

\* the picker walking the server's list first: server preference, not the client's
pickTLS12HashServerPreferred(sigType, clientList, serverList) ==
    IF Len(clientList) = 0 THEN [hash |-> hashSHA1, err |-> ErrNil]
    ELSE pickFrom(1, sigType, serverList, clientList)

pickTLS12HashForSignature(sigType, clientList, serverList) ==
    IF Len(clientList) = 0
    THEN [hash |-> hashSHA1, err |-> ErrNil]
    ELSE pickFrom(1, sigType, clientList, serverList)

(***************************************************************************)
(* Signature primitives (crypto/rsa, crypto/ecdsa, crypto/dsa, asn1).      *)
(* RSA keys are [type, N, E]; the RSA permutation on a byte string is a    *)
(* byte-wise shift by a key-dependent mask, inverted by the private key.   *)
(* ECDSA and DSA share the DSA algebra over a subgroup of order SigQ of    *)
(* the integers modulo SigP.                                               *)
(***************************************************************************)
SigP == 23
SigQ == 11
SigG == 2

RsaMask(key) == (key.N + key.E) % 256

\* c = m^e mod N, byte-wise stand-in
rsaPublicOp(pub, m) == [i \in 1..Len(m) |-> (m[i] + RsaMask(pub)) % 256]

\* m = c^d mod N, byte-wise stand-in
rsaPrivateOp(priv, c) == [i \in 1..Len(c) |-> (c[i] + 256 - RsaMask(priv)) % 256]

\* the DigestInfo prefix of a crypto.Hash (empty for MD5SHA1)
HashPrefix(hashFunc) ==
    CASE hashFunc = "MD5" -> <<48, hashMD5>>
      [] hashFunc = "SHA1" -> <<48, hashSHA1>>
      [] hashFunc = "SHA224" -> <<48, hashSHA224>>
      [] hashFunc = "SHA256" -> <<48, hashSHA256>>
      [] hashFunc = "SHA384" -> <<48, hashSHA384>>
      [] hashFunc = "SHA512" -> <<48, hashSHA512>>
      [] OTHER -> <<>>

\* EMSA-PKCS1-v1_5: 00 01 FF 00 || DigestInfo
Pkcs1SigEncode(hashFunc, digest) == <<0, 1, 255, 0>> \o HashPrefix(hashFunc) \o digest

\* rsa.SignPKCS1v15(rand, priv, hash, hashed)
SignPKCS1v15(priv, hashFunc, digest) ==
    rsaPrivateOp(priv, Pkcs1SigEncode(hashFunc, digest))

\* rsa.VerifyPKCS1v15(pub, hash, hashed, sig) = nil
VerifyPKCS1v15(pub, hashFunc, digest, sig) ==
    /\ Len(sig) = Len(Pkcs1SigEncode(hashFunc, digest))
    /\ rsaPublicOp(pub, sig) = Pkcs1SigEncode(hashFunc, digest)

\* the digest as an integer modulo the group order
HashToInt(digest) == SetBytes(digest) % SigQ

\* k^-1 mod SigQ (SigQ is prime)
InvQ(k) == ModExp(k, SigQ - 2, SigQ)

SigR(k) == ModExp(SigG, k, SigP) % SigQ

SigS(priv, digest, k) == (InvQ(k) * (HashToInt(digest) + SigR(k) * priv.D)) % SigQ

\* the nonces ecdsa.Sign can end on: it draws again while r = 0 or s = 0
SignNonces(priv, digest) ==
    {k \in 1..(SigQ - 1) : SigR(k) # 0 /\ SigS(priv, digest, k) # 0}

\* ecdsa.Sign(rand, priv, hash) with the nonce the RNG gave
ecdsaSign(priv, digest, k) == [r |-> SigR(k), s |-> SigS(priv, digest, k)]

\* ecdsa.Verify(pub, hash, r, s) and dsa.Verify(pub, hash, r, s)
dsaVerify(pubY, digest, r, s) ==
    /\ r > 0 /\ r < SigQ /\ s > 0 /\ s < SigQ
    /\ LET w == InvQ(s)
           u1 == (HashToInt(digest) * w) % SigQ
           u2 == (r * w) % SigQ
       IN ((ModExp(SigG, u1, SigP) * ModExp(pubY, u2, SigP)) % SigP) % SigQ = r

\* the public key of an ECDSA / DSA private key
PublicOf(d) == ModExp(SigG, d, SigP)

\* DER INTEGER of a value in -128..255
asn1Int(v) ==
    IF v < 0 THEN <<2, 1, v + 256>>
    ELSE IF v < 128 THEN <<2, 1, v>> ELSE <<2, 2, 0, v>>

\* asn1.Marshal(ecdsaSignature{r, s})
asn1Marshal(r, s) ==
    <<48, Len(asn1Int(r)) + Len(asn1Int(s))>> \o asn1Int(r) \o asn1Int(s)

\* one DER INTEGER at the head of b: [ok, v, rest]
asn1ParseInt(b) ==
    IF Len(b) < 3 \/ b[1] # 2 THEN [ok |-> FALSE, v |-> 0, rest |-> <<>>]
    ELSE IF b[2] = 1
         THEN [ok |-> TRUE, v |-> IF b[3] >= 128 THEN b[3] - 256 ELSE b[3],
               rest |-> Slice(b, 3)]
         ELSE IF b[2] = 2 /\ Len(b) >= 4 /\ b[3] = 0 /\ b[4] >= 128
              THEN [ok |-> TRUE, v |-> b[4], rest |-> Slice(b, 4)]
              ELSE [ok |-> FALSE, v |-> 0, rest |-> <<>>]

\* asn1.Unmarshal(sig, &ecdsaSignature{}): trailing bytes are returned, not refused
asn1Unmarshal(sig) ==
    IF Len(sig) < 2 \/ sig[1] # 48 \/ sig[2] >= 128 \/ Len(sig) < 2 + sig[2]
    THEN [ok |-> FALSE, r |-> 0, s |-> 0]
    ELSE LET body == SubSeq(sig, 3, 2 + sig[2])
             a == asn1ParseInt(body)
             b == asn1ParseInt(a.rest)
         IN IF a.ok /\ b.ok /\ Len(b.rest) = 0
            THEN [ok |-> TRUE, r |-> a.v, s |-> b.v]
            ELSE [ok |-> FALSE, r |-> 0, s |-> 0]

(***************************************************************************)
(* keyAgreementAuthentication: nilKeyAgreementAuthentication and           *)
(* signedKeyAgreement.  An authentication object is [kind |-> "nil"] or    *)
(* [kind |-> "signed", version, sigType, raw, valid, sh].                  *)
(***************************************************************************)
NilAuth == [kind |-> "nil"]

SignedAuth(version, sigType) ==
    [kind |-> "signed", version |-> version, sigType |-> sigType, raw |-> NoBytes,
     valid |-> FALSE, sh |-> SigAndHash(0, 0)]

NoSkx == [key |-> NoBytes, digest |-> NoBytes]

\* an error return of signParameters
SignFail(ka, e) == [auth |-> ka, skx |-> NoSkx, err |-> e]

nilSignParameters(ka, params) ==
    [auth |-> ka, skx |-> [key |-> params, digest |-> NoBytes], err |-> ErrNil]

\* the message built with the two bytes of the pair in the other order
SignFinishPairSwapped(ka, tls12HashId, digest, params, sig) ==
    [auth |-> [ka EXCEPT !.raw = sig, !.valid = TRUE],
     skx |-> [digest |-> digest,
              key |-> params
                      \o (IF ka.version >= VersionTLS12
                          THEN <<ka.sigType, tls12HashId>> ELSE <<>>)
                      \o U16(Len(sig)) \o sig],
     err |-> ErrNil]

\* the message built from the signature (lines 432-451)
SignFinish(ka, tls12HashId, digest, params, sig) ==
    [auth |-> [ka EXCEPT !.raw = sig, !.valid = TRUE],
     skx |-> [digest |-> digest,
              key |-> params
                      \o (IF ka.version >= VersionTLS12
                          THEN <<tls12HashId, ka.sigType>> ELSE <<>>)
                      \o U16(Len(sig)) \o sig],
     err |-> ErrNil]

\* k is the nonce config.rand() gives ecdsa.Sign
signedSignParameters(ka, cfg, crt, clientHello, params, k) ==
    LET tls12 == ka.version >= VersionTLS12
        pick == pickTLS12HashForSignature(ka.sigType, clientHello.signatureAndHashes,
                                          cfg.signatureAndHashesForServer)
        tls12HashId == IF tls12 THEN pick.hash ELSE 0
        ka1 == IF tls12 THEN [ka EXCEPT !.sh.hash = tls12HashId] ELSE ka
        ka2 == [ka1 EXCEPT !.sh.signature = ka.sigType]
        h == hashForServerKeyExchange(ka.sigType, tls12HashId, ka.version,
                 <<clientHello.random, clientHello.serverRandom, params>>)
    IN IF tls12 /\ pick.err # ErrNil THEN SignFail(ka, pick.err)
       ELSE IF h.err # ErrNil THEN SignFail(ka2, h.err)
       ELSE CASE ka.sigType = signatureECDSA ->
                   IF crt.PrivateKey.type # "ecdsa"
                   THEN SignFail(ka2, "ECDHE ECDSA requires an ECDSA server private key")
                   ELSE LET rs == ecdsaSign(crt.PrivateKey, h.digest, k)
                        IN SignFinish(ka2, tls12HashId, h.digest, params,
                                      asn1Marshal(rs.r, rs.s))
              [] ka.sigType = signatureRSA ->
                   IF crt.PrivateKey.type # "rsa"
                   THEN SignFail(ka2, "ECDHE RSA requires a RSA server private key")
                   ELSE SignFinish(ka2, tls12HashId, h.digest, params,
                                   SignPKCS1v15(crt.PrivateKey, h.hashFunc, h.digest))
              [] OTHER -> SignFail(ka2, "unknown ECDHE signature algorithm")

\* ka.auth.signParameters(config, cert, clientHello, hello, params)
signParameters(ka, cfg, crt, clientHello, params, k) ==
    IF ka.kind = "nil" THEN nilSignParameters(ka, params)
    ELSE signedSignParameters(ka, cfg, crt, clientHello, params, k)

\* an error return of verifyParameters; checked: a Verify primitive was called
VerifyFail(ka, e, checked) ==
    [auth |-> ka, digest |-> NoBytes, err |-> e, checked |-> checked]

nilVerifyParameters(ka) ==
    [auth |-> ka, digest |-> NoBytes, err |-> ErrNil, checked |-> FALSE]

\* the switch on ka.sigType (lines 489-533); ka already holds raw
VerifySwitch(ka, crt, h, sig) ==
    LET pub == crt.PublicKey
        ok == [auth |-> [ka EXCEPT !.valid = TRUE], digest |-> h.digest,
               err |-> ErrNil, checked |-> TRUE]
        parsed == asn1Unmarshal(sig)
    IN CASE ka.sigType = signatureECDSA ->
              IF pub.type # "augECDSA"
              THEN VerifyFail(ka, "ECDHE ECDSA: could not covert cert.PublicKey to x509.AugmentedECDSA", FALSE)
              ELSE IF ~parsed.ok THEN VerifyFail(ka, "asn1: syntax error", FALSE)
              ELSE IF parsed.r <= 0 \/ parsed.s <= 0
                   THEN VerifyFail(ka, "ECDSA signature contained zero or negative values", FALSE)
              ELSE IF ~dsaVerify(pub.Y, h.digest, parsed.r, parsed.s)
                   THEN VerifyFail(ka, "ECDSA verification failure", TRUE)
              ELSE ok
         [] ka.sigType = signatureRSA ->
              IF pub.type # "rsa"
              THEN VerifyFail(ka, "ECDHE RSA requires a RSA server public key", FALSE)
              ELSE IF ~VerifyPKCS1v15(pub, h.hashFunc, h.digest, sig)
                   THEN VerifyFail(ka, "crypto/rsa: verification error", TRUE)
              ELSE ok
         [] ka.sigType = signatureDSA ->
              IF pub.type # "dsa"
              THEN VerifyFail(ka, "DSS ciphers require a DSA server public key", FALSE)
              ELSE IF ~parsed.ok THEN VerifyFail(ka, "asn1: syntax error", FALSE)
              ELSE IF parsed.r <= 0 \/ parsed.s <= 0
                   THEN VerifyFail(ka, "DSA signature contained zero or negative values", FALSE)
              ELSE IF ~dsaVerify(pub.Y, h.digest, parsed.r, parsed.s)
                   THEN VerifyFail(ka, "DSA verification failure", TRUE)
              ELSE ok
         [] OTHER -> VerifyFail(ka, "unknown ECDHE signature algorithm", FALSE)

\* verifyParameters without the look-up of the pair in the client's allow-list
signedVerifyParametersAnyHash(ka, cfg, clientHello, crt, params, sig) ==
    LET tls12 == ka.version >= VersionTLS12
        tls12HashId == IF tls12 THEN sig[1] ELSE 0
        ka1 == IF tls12 THEN [ka EXCEPT !.sh = SigAndHash(sig[1], sig[2])] ELSE ka
        sig1 == IF tls12 THEN Slice(sig, 2) ELSE sig
        sig2 == Slice(sig1, 2)
        ka2 == [ka1 EXCEPT !.raw = sig2]
        h == hashForServerKeyExchange(ka.sigType, tls12HashId, ka.version,
                 <<clientHello.random, clientHello.serverRandom, params>>)
    IN IF Len(sig) < 2 THEN VerifyFail(ka, errServerKeyExchange, FALSE)
       ELSE IF tls12 /\ sig[2] # ka.sigType
            THEN VerifyFail(ka1, errServerKeyExchange, FALSE)
       ELSE IF tls12 /\ Len(sig1) < 2
            THEN VerifyFail(ka1, errServerKeyExchange, FALSE)
       ELSE IF ReadU16(sig1) + 2 # Len(sig1)
            THEN VerifyFail(ka1, errServerKeyExchange, FALSE)
       ELSE IF h.err # ErrNil THEN VerifyFail(ka2, h.err, FALSE)
       ELSE VerifySwitch(ka2, crt, h, sig2)

signedVerifyParameters(ka, cfg, clientHello, crt, params, sig) ==
    LET tls12 == ka.version >= VersionTLS12
        tls12HashId == IF tls12 THEN sig[1] ELSE 0
        ka1 == IF tls12 THEN [ka EXCEPT !.sh = SigAndHash(sig[1], sig[2])] ELSE ka
        sig1 == IF tls12 THEN Slice(sig, 2) ELSE sig
        sig2 == Slice(sig1, 2)
        ka2 == [ka1 EXCEPT !.raw = sig2]
        h == hashForServerKeyExchange(ka.sigType, tls12HashId, ka.version,
                 <<clientHello.random, clientHello.serverRandom, params>>)
    IN IF Len(sig) < 2 THEN VerifyFail(ka, errServerKeyExchange, FALSE)
       ELSE IF tls12 /\ sig[2] # ka.sigType
            THEN VerifyFail(ka1, errServerKeyExchange, FALSE)
       ELSE IF tls12 /\ Len(sig1) < 2
            THEN VerifyFail(ka1, errServerKeyExchange, FALSE)
       ELSE IF tls12 /\ ~isSupportedSignatureAndHash(SigAndHash(tls12HashId, ka.sigType),
                                                      cfg.signatureAndHashesForClient)
            THEN VerifyFail(ka1, errUnsupportedHash, FALSE)
       ELSE IF ReadU16(sig1) + 2 # Len(sig1)
            THEN VerifyFail(ka1, errServerKeyExchange, FALSE)
       ELSE IF h.err # ErrNil THEN VerifyFail(ka2, h.err, FALSE)
       ELSE VerifySwitch(ka2, crt, h, sig2)

\* ka.auth.verifyParameters(config, clientHello, serverHello, cert, params, sig)
verifyParameters(ka, cfg, clientHello, crt, params, sig) ==
    IF ka.kind = "nil" THEN nilVerifyParameters(ka)
    ELSE signedVerifyParameters(ka, cfg, clientHello, crt, params, sig)

(***************************************************************************)
(* RSA encryption (crypto/rsa).  A modulus is a two-byte stand-in N; its   *)
(* byte length k is scaled so that a two-byte N has the 64 bytes of the    *)
(* 512-bit export key.                                                     *)
(***************************************************************************)
\* the bytes one byte of the stand-in modulus counts for
RsaByteScale == 32

\* k = (N.BitLen() + 7) / 8
RsaSize(key) == RsaByteScale * Len(Bytes(key.N))

\* n copies of the byte b
Fill(n, b) == [i \in 1..n |-> b]

\* rsa.EncryptPKCS1v15(rand, pub, msg): 00 02 PS 00 msg under the public key;
\* pad is the non-zero byte the RNG fills PS with
EncryptPKCS1v15(pub, msg, pad) ==
    IF Len(msg) > RsaSize(pub) - 11
    THEN [c |-> NoBytes, err |-> "crypto/rsa: message too long for RSA public key size"]
    ELSE [c |-> rsaPublicOp(pub, <<0, 2>> \o Fill(RsaSize(pub) - Len(msg) - 3, pad)
                                 \o <<0>> \o msg),
          err |-> ErrNil]

\* the index of the first zero byte of em after the two header bytes, 0 if none
RECURSIVE FirstZeroFrom(_, _)
FirstZeroFrom(em, i) ==
    IF i > Len(em) THEN 0
    ELSE IF em[i] = 0 THEN i ELSE FirstZeroFrom(em, i + 1)

\* the bytes of b from its first non-zero byte on: what big.Int.SetBytes keeps
RECURSIVE StripZeros(_)
StripZeros(b) ==
    IF Len(b) = 0 THEN b
    ELSE IF b[1] # 0 THEN b ELSE StripZeros(Slice(b, 1))

\* rsa.DecryptPKCS1v15SessionKey(rand, priv, ciphertext, key): an error when the
\* modulus is too short for the key or the ciphertext, read as an integer, exceeds
\* the modulus (here: has more bytes); otherwise key is overwritten with the
\* plaintext if the padding is valid and the plaintext has the length of key, and
\* left as it is if not
DecryptPKCS1v15SessionKey(priv, ciphertext, key) ==
    LET k == RsaSize(priv)
        c == StripZeros(ciphertext)
        em == rsaPrivateOp(priv, Fill(k - Len(c), 0) \o c)
        z == FirstZeroFrom(em, 3)
        valid == /\ em[1] = 0
                 /\ em[2] = 2
                 /\ z > 10
                 /\ Len(em) - z = Len(key)
    IN IF k - (Len(key) + 3 + 8) < 0 \/ Len(c) > k
       THEN [key |-> key, err |-> "crypto/rsa: decryption error"]
       ELSE [key |-> IF valid THEN Slice(em, z) ELSE key, err |-> ErrNil]

(***************************************************************************)
(* rsaKeyAgreement.  The object is                                         *)
(* [auth, version, clientVersion, ephemeral, privateKey, publicKey,        *)
(*  verifyError].                                                          *)
(***************************************************************************)
\* len(preMasterSecret) of make([]byte, 48)
PreMasterSecretLen == 48

NewRsaKeyAgreement(auth, version, ephemeral) ==
    [auth |-> auth, version |-> version, clientVersion |-> 0, ephemeral |-> ephemeral,
     privateKey |-> NoKey, publicKey |-> NoKey, verifyError |-> ErrNil]

\* an error return before verifyParameters that stores its error in verifyError
SkxFailStored(ka, e) ==
    [ka |-> [ka EXCEPT !.verifyError = e], err |-> e, digest |-> NoBytes,
     verifyCalled |-> FALSE, checked |-> FALSE]

\* an error return of processServerKeyExchange before verifyParameters is reached
SkxFail(ka, e) ==
    [ka |-> ka, err |-> e, digest |-> NoBytes, verifyCalled |-> FALSE, checked |-> FALSE]

\* the verify error thrown whether or not InsecureSkipVerify is set
SkxVerifyThrown(ka, cfg, clientHello, crt, params, sig) ==
    LET v == verifyParameters(ka.auth, cfg, clientHello, crt, params, sig)
    IN [ka |-> [ka EXCEPT !.auth = v.auth, !.verifyError = v.err],
        err |-> v.err,
        digest |-> v.digest, verifyCalled |-> TRUE, checked |-> v.checked]

\* lines 155-159, 644-648, 853-857: store the verify error, surface it unless skipped
SkxVerify(ka, cfg, clientHello, crt, params, sig) ==
    LET v == verifyParameters(ka.auth, cfg, clientHello, crt, params, sig)
    IN [ka |-> [ka EXCEPT !.auth = v.auth, !.verifyError = v.err],
        err |-> IF cfg.InsecureSkipVerify THEN ErrNil ELSE v.err,
        digest |-> v.digest, verifyCalled |-> TRUE, checked |-> v.checked]

\* a big integer behind its 16-bit length
LenPrefixed(n) == U16(Len(Bytes(n))) \o Bytes(n)

\* genKey is the key rsa.GenerateKey(config.rand(), 512) gives, k the signer's nonce
rsaGenerateServerKeyExchange(ka, cfg, crt, clientHello, genKey, k) ==
    LET ka1 == [ka EXCEPT !.clientVersion = clientHello.vers]
        ka2 == [ka1 EXCEPT !.privateKey = IF cfg.ExportRSAKey # NoKey
                                          THEN cfg.ExportRSAKey ELSE genKey]
        serverRSAParams == LenPrefixed(ka2.privateKey.N) \o LenPrefixed(ka2.privateKey.E)
        s == signParameters(ka2.auth, cfg, crt, clientHello, serverRSAParams, k)
    IN IF ~ka.ephemeral THEN [ka |-> ka1, skx |-> NoSkx, err |-> ErrNil]
       ELSE [ka |-> [ka2 EXCEPT !.auth = s.auth], skx |-> s.skx, err |-> s.err]

\* processClientKeyExchange reading a length prefix at SSL 3.0 as well
rsaProcessClientKeyExchangeAlwaysPrefixed(ka, crt, ckxCiphertext, rnd) ==
    LET preMasterSecret == <<0, 0>> \o rnd
        ciphertext == Slice(ckxCiphertext, 2)
        key == IF ka.privateKey # NoKey THEN ka.privateKey ELSE crt.PrivateKey
        d == DecryptPKCS1v15SessionKey(key, ciphertext, preMasterSecret)
    IN IF Len(ckxCiphertext) < 2
       THEN [ka |-> ka, pms |-> NoBytes, err |-> errClientKeyExchange]
       ELSE IF ReadU16(ckxCiphertext) # Len(ckxCiphertext) - 2
            THEN [ka |-> ka, pms |-> NoBytes, err |-> errClientKeyExchange]
       ELSE IF key.type # "rsa" THEN [ka |-> ka, pms |-> NoBytes, err |-> Panic]
       ELSE IF d.err # ErrNil THEN [ka |-> ka, pms |-> NoBytes, err |-> d.err]
       ELSE [ka |-> ka, pms |-> d.key, err |-> ErrNil]

\* processClientKeyExchange comparing the decrypted version bytes with the
\* negotiated version
rsaProcessClientKeyExchangeVersionChecked(ka, crt, ckxCiphertext, rnd) ==
    LET preMasterSecret == <<0, 0>> \o rnd
        ciphertext == IF ka.version # VersionSSL30
                      THEN Slice(ckxCiphertext, 2) ELSE ckxCiphertext
        key == IF ka.privateKey # NoKey THEN ka.privateKey ELSE crt.PrivateKey
        d == DecryptPKCS1v15SessionKey(key, ciphertext, preMasterSecret)
    IN IF Len(ckxCiphertext) < 2
       THEN [ka |-> ka, pms |-> NoBytes, err |-> errClientKeyExchange]
       ELSE IF ka.version # VersionSSL30 /\ ReadU16(ckxCiphertext) # Len(ckxCiphertext) - 2
            THEN [ka |-> ka, pms |-> NoBytes, err |-> errClientKeyExchange]
       ELSE IF key.type # "rsa" THEN [ka |-> ka, pms |-> NoBytes, err |-> Panic]
       ELSE IF d.err # ErrNil THEN [ka |-> ka, pms |-> NoBytes, err |-> d.err]
       ELSE IF Prefix(d.key, 2) # U16(ka.version)
            THEN [ka |-> ka, pms |-> NoBytes, err |-> errClientKeyExchange]
       ELSE [ka |-> ka, pms |-> d.key, err |-> ErrNil]

\* rnd is the 46 bytes io.ReadFull(config.rand(), preMasterSecret[2:]) reads
rsaProcessClientKeyExchange(ka, crt, ckxCiphertext, rnd) ==
    LET preMasterSecret == <<0, 0>> \o rnd
        ciphertext == IF ka.version # VersionSSL30
                      THEN Slice(ckxCiphertext, 2) ELSE ckxCiphertext
        key == IF ka.privateKey # NoKey THEN ka.privateKey ELSE crt.PrivateKey
        d == DecryptPKCS1v15SessionKey(key, ciphertext, preMasterSecret)
    IN IF Len(ckxCiphertext) < 2
       THEN [ka |-> ka, pms |-> NoBytes, err |-> errClientKeyExchange]
       ELSE IF ka.version # VersionSSL30 /\ ReadU16(ckxCiphertext) # Len(ckxCiphertext) - 2
            THEN [ka |-> ka, pms |-> NoBytes, err |-> errClientKeyExchange]
       ELSE IF key.type # "rsa" THEN [ka |-> ka, pms |-> NoBytes, err |-> Panic]
       ELSE IF d.err # ErrNil THEN [ka |-> ka, pms |-> NoBytes, err |-> d.err]
       ELSE [ka |-> ka, pms |-> d.key, err |-> ErrNil]

\* processServerKeyExchange parsing the message whether or not the key agreement
\* is ephemeral
rsaProcessServerKeyExchangeAlwaysParsed(ka, cfg, clientHello, crt, key) ==
    LET modulusLen == ReadU16(key)
        k1 == Slice(key, 2)
        modulus == SetBytes(Prefix(k1, modulusLen))
        k2 == Slice(k1, modulusLen)
        exponentLength == ReadU16(k2)
        k3 == Slice(k2, 2)
        exponent == SetBytes(Prefix(k3, exponentLength))
        ka1 == [ka EXCEPT !.publicKey = [type |-> "rsa", N |-> modulus, E |-> exponent]]
        paramsLen == 2 + exponentLength + 2 + modulusLen
    IN IF Len(key) < 2 THEN SkxFail(ka, errServerKeyExchange)
       ELSE IF Len(k1) < modulusLen THEN SkxFail(ka, errServerKeyExchange)
       ELSE IF Len(k2) < 2 THEN SkxFail(ka, errServerKeyExchange)
       ELSE IF Len(k3) < exponentLength \/ exponentLength > 4
            THEN SkxFail(ka, errServerKeyExchange)
       ELSE SkxVerify(ka1, cfg, clientHello, crt, Prefix(key, paramsLen),
                      Slice(key, paramsLen))

\* processServerKeyExchange storing the modulus in a new publicKey before it
\* rejects an exponent longer than four bytes
rsaProcessServerKeyExchangeEarlyKey(ka, cfg, clientHello, crt, key) ==
    LET modulusLen == ReadU16(key)
        k1 == Slice(key, 2)
        modulus == SetBytes(Prefix(k1, modulusLen))
        k2 == Slice(k1, modulusLen)
        exponentLength == ReadU16(k2)
        k3 == Slice(k2, 2)
        exponent == SetBytes(Prefix(k3, exponentLength))
        ka1 == [ka EXCEPT !.publicKey = [type |-> "rsa", N |-> modulus, E |-> exponent]]
        paramsLen == 2 + exponentLength + 2 + modulusLen
    IN IF ~ka.ephemeral THEN SkxFail(ka, ErrNil)
       ELSE IF Len(key) < 2 THEN SkxFail(ka, errServerKeyExchange)
       ELSE IF Len(k1) < modulusLen THEN SkxFail(ka, errServerKeyExchange)
       ELSE IF Len(k2) < 2 THEN SkxFail(ka, errServerKeyExchange)
       ELSE IF Len(k3) < exponentLength THEN SkxFail(ka, errServerKeyExchange)
       ELSE IF exponentLength > 4
            THEN SkxFail([ka EXCEPT !.publicKey = [type |-> "rsa", N |-> modulus, E |-> 0]],
                         errServerKeyExchange)
       ELSE SkxVerify(ka1, cfg, clientHello, crt, Prefix(key, paramsLen),
                      Slice(key, paramsLen))

rsaProcessServerKeyExchange(ka, cfg, clientHello, crt, key) ==
    LET modulusLen == ReadU16(key)
        k1 == Slice(key, 2)
        modulus == SetBytes(Prefix(k1, modulusLen))
        k2 == Slice(k1, modulusLen)
        exponentLength == ReadU16(k2)
        k3 == Slice(k2, 2)
        exponent == SetBytes(Prefix(k3, exponentLength))
        ka1 == [ka EXCEPT !.publicKey = [type |-> "rsa", N |-> modulus, E |-> exponent]]
        paramsLen == 2 + exponentLength + 2 + modulusLen
    IN IF ~ka.ephemeral THEN SkxFail(ka, ErrNil)
       ELSE IF Len(key) < 2 THEN SkxFail(ka, errServerKeyExchange)
       ELSE IF Len(k1) < modulusLen THEN SkxFail(ka, errServerKeyExchange)
       ELSE IF Len(k2) < 2 THEN SkxFail(ka, errServerKeyExchange)
       ELSE IF Len(k3) < exponentLength \/ exponentLength > 4
            THEN SkxFail(ka, errServerKeyExchange)
       ELSE SkxVerify(ka1, cfg, clientHello, crt, Prefix(key, paramsLen),
                      Slice(key, paramsLen))

\* generateClientKeyExchange encrypting to the certificate's key even when an
\* ephemeral key was parsed
rsaGenerateClientKeyExchangeCertKey(ka, clientHello, crt, rnd, pad) ==
    LET preMasterSecret == U16(clientHello.vers) \o rnd
        publicKey == crt.PublicKey
        e == EncryptPKCS1v15(publicKey, preMasterSecret, pad)
    IN IF publicKey.type # "rsa"
       THEN [ka |-> ka, pms |-> NoBytes, ckx |-> NoBytes, err |-> errClientKeyExchange]
       ELSE IF e.err # ErrNil
            THEN [ka |-> ka, pms |-> NoBytes, ckx |-> NoBytes, err |-> e.err]
       ELSE [ka |-> ka, pms |-> preMasterSecret,
             ckx |-> (IF ka.version # VersionSSL30 THEN U16(Len(e.c)) ELSE <<>>) \o e.c,
             err |-> ErrNil]

\* rnd is the 46 random bytes of the pre-master secret, pad the padding byte
rsaGenerateClientKeyExchange(ka, clientHello, crt, rnd, pad) ==
    LET preMasterSecret == U16(clientHello.vers) \o rnd
        publicKey == IF ka.publicKey # NoKey THEN ka.publicKey ELSE crt.PublicKey
        e == EncryptPKCS1v15(publicKey, preMasterSecret, pad)
    IN IF publicKey.type # "rsa"
       THEN [ka |-> ka, pms |-> NoBytes, ckx |-> NoBytes, err |-> errClientKeyExchange]
       ELSE IF e.err # ErrNil
            THEN [ka |-> ka, pms |-> NoBytes, ckx |-> NoBytes, err |-> e.err]
       ELSE [ka |-> ka, pms |-> preMasterSecret,
             ckx |-> (IF ka.version # VersionSSL30 THEN U16(Len(e.c)) ELSE <<>>) \o e.c,
             err |-> ErrNil]

(***************************************************************************)
(* Curves (package ecdh: the Curve interface is in ecdh/ecdh.go, the curve *)
(* implementations are not part of the sources at hand and are modelled    *)
(* from the specification).  Every short-Weierstrass curve is the curve    *)
(* y^2 = x^3 + 2x + 2 over the field of 17 elements, whose group is cyclic *)
(* of order 19 with generator (5, 1); every Montgomery curve is x-only     *)
(* over the field of 13 elements with base point 2.  A coordinate is one   *)
(* byte on the wire.                                                       *)
(***************************************************************************)
CurveT163k1 == 1
CurveT163r1 == 2
CurveT163r2 == 3
CurveP160k1 == 15
CurveP160r1 == 16
CurveP160r2 == 17
CurveP192k1 == 18
CurveP192r1 == 19
CurveP224k1 == 20
CurveP224r1 == 21
CurveP256k1 == 22
CurveP256r1 == 23
CurveP384r1 == 24
CurveP521r1 == 25
CurveBrainpoolP256r1 == 26
CurveBrainpoolP384r1 == 27
CurveBrainpoolP512r1 == 28
Curve25519 == 29
Curve448 == 30

\* a nil ecdh.Curve
NoCurve == 0

MontgomeryCurves == {Curve25519, Curve448}

WeierstrassCurves ==
    {CurveT163k1, CurveT163r1, CurveT163r2, CurveP160r1, CurveP160k1, CurveP160r2,
     CurveP192r1, CurveP192k1, CurveP224k1, CurveP224r1, CurveP256k1, CurveP256r1,
     CurveP384r1, CurveP521r1, CurveBrainpoolP256r1, CurveBrainpoolP384r1,
     CurveBrainpoolP512r1}

\* returns (curve, ok); a curve is named by its identifier
curveForCurveID(id) ==
    IF id \in WeierstrassCurves \cup MontgomeryCurves
    THEN [curve |-> id, ok |-> TRUE]
    ELSE [curve |-> NoCurve, ok |-> FALSE]

WeierstrassPrime == 17
WeierstrassOrder == 19
MontgomeryPrime == 13
MontgomeryOrder == 12
MontgomeryBase == 2

\* a nil *ECDHPublicKey
NoPoint == [X |-> Nil, Y |-> Nil]

\* d * (5, 1) for d = 1..18
WeierstrassMultiples ==
    <<[X |-> 5, Y |-> 1], [X |-> 6, Y |-> 3], [X |-> 10, Y |-> 6], [X |-> 3, Y |-> 1],
      [X |-> 9, Y |-> 16], [X |-> 16, Y |-> 13], [X |-> 0, Y |-> 6], [X |-> 13, Y |-> 7],
      [X |-> 7, Y |-> 6], [X |-> 7, Y |-> 11], [X |-> 13, Y |-> 10], [X |-> 0, Y |-> 11],
      [X |-> 16, Y |-> 4], [X |-> 9, Y |-> 1], [X |-> 3, Y |-> 16], [X |-> 10, Y |-> 11],
      [X |-> 6, Y |-> 14], [X |-> 5, Y |-> 16]>>

\* the point satisfies the curve equation
OnCurve(x, y) ==
    /\ x >= 0 /\ x < WeierstrassPrime /\ y >= 0 /\ y < WeierstrassPrime
    /\ (y * y) % WeierstrassPrime = (x * x * x + 2 * x + 2) % WeierstrassPrime

\* the private scalars Curve.GenerateKey can draw
CurveScalars(curve) ==
    IF curve \in MontgomeryCurves THEN 1..(MontgomeryOrder - 1)
    ELSE 1..(WeierstrassOrder - 1)

\* Curve.GenerateKey(rand) with the scalar d the RNG gave: the public key
CurvePublic(curve, d) ==
    IF curve \in MontgomeryCurves
    THEN [X |-> ModExp(MontgomeryBase, d, MontgomeryPrime), Y |-> Nil]
    ELSE WeierstrassMultiples[d]

\* Curve.Marshal(pub, compressed)
CurveMarshal(curve, pub, compressed) ==
    IF curve \in MontgomeryCurves THEN <<pub.X>>
    ELSE IF compressed THEN <<2 + (pub.Y % 2), pub.X>>
    ELSE <<4, pub.X, pub.Y>>

\* Curve.Unmarshal(data): (point, ok), the point nil when not ok
CurveUnmarshal(curve, data) ==
    IF curve \in MontgomeryCurves
    THEN IF Len(data) = 1 /\ data[1] < MontgomeryPrime
         THEN [pub |-> [X |-> data[1], Y |-> Nil], ok |-> TRUE]
         ELSE [pub |-> NoPoint, ok |-> FALSE]
    ELSE IF Len(data) = 3 /\ data[1] = 4 /\ OnCurve(data[2], data[3])
         THEN [pub |-> [X |-> data[2], Y |-> data[3]], ok |-> TRUE]
    ELSE IF Len(data) = 2 /\ data[1] \in {2, 3}
            /\ \E y \in 0..(WeierstrassPrime - 1) :
                   OnCurve(data[2], y) /\ y % 2 = data[1] - 2
         THEN [pub |-> [X |-> data[2],
                        Y |-> CHOOSE y \in 0..(WeierstrassPrime - 1) :
                                  OnCurve(data[2], y) /\ y % 2 = data[1] - 2],
               ok |-> TRUE]
    ELSE [pub |-> NoPoint, ok |-> FALSE]

(***************************************************************************)
(* ecdheKeyAgreement.  The object is                                       *)
(* [auth, privateKey, serverPublicKey, clientPublicKey, curve, verifyError,*)
(*  curveID, clientPrivKey, serverPrivKey, clientX, clientY]; a private    *)
(* key is its scalar.                                                      *)
(***************************************************************************)
NewEcdheKeyAgreement(auth) ==
    [auth |-> auth, privateKey |-> Nil, serverPublicKey |-> NoPoint,
     clientPublicKey |-> NoPoint, curve |-> NoCurve, verifyError |-> ErrNil,
     curveID |-> 0, clientPrivKey |-> NoBytes, serverPrivKey |-> NoBytes,
     clientX |-> Nil, clientY |-> Nil]

\* candidate == c for some c of the client's list
CurveOffered(candidate, supportedCurves) ==
    \E j \in 1..Len(supportedCurves) : supportedCurves[j] = candidate

RECURSIVE NextCandidate(_, _, _)
\* the loop labelled NextCandidate from index i of the preferences on: the first
\* candidate the client also lists, 0 if there is none
NextCandidate(i, preferredCurves, supportedCurves) ==
    IF i > Len(preferredCurves) THEN 0
    ELSE IF CurveOffered(preferredCurves[i], supportedCurves) THEN preferredCurves[i]
    ELSE NextCandidate(i + 1, preferredCurves, supportedCurves)

\* d is the scalar config.rand() gives GenerateKey, k the signer's nonce
ecdheGenerateServerKeyExchange(ka, cfg, crt, clientHello, d, k) ==
    LET curveid == NextCandidate(1, cfg.curvePreferences, clientHello.supportedCurves)
        found == curveForCurveID(curveid)
        ka1 == [ka EXCEPT !.curveID = curveid, !.curve = found.curve]
        ecdhePublic == CurveMarshal(ka1.curve, CurvePublic(ka1.curve, d), FALSE)
        ka2 == [ka1 EXCEPT !.privateKey = d, !.serverPrivKey = <<d>>]
        serverECDHParams ==
            <<3, (curveid \div 256) % 256, curveid % 256, Len(ecdhePublic) % 256>>
            \o ecdhePublic
        s == signParameters(ka2.auth, cfg, crt, clientHello, serverECDHParams, k)
    IN IF curveid = 0 THEN [ka |-> ka, skx |-> NoSkx, err |-> errNoCurves]
       ELSE IF ~found.ok THEN [ka |-> ka1, skx |-> NoSkx, err |-> errPreferredUnsupported]
       ELSE [ka |-> [ka2 EXCEPT !.auth = s.auth], skx |-> s.skx, err |-> s.err]

ecdheProcessServerKeyExchange(ka, cfg, clientHello, crt, key) ==
    LET curveID == key[2] * 256 + key[3]
        found == curveForCurveID(curveID)
        ka1 == [ka EXCEPT !.curveID = curveID, !.curve = found.curve]
        publicLen == key[4]
        u == CurveUnmarshal(ka1.curve, SubSeq(key, 5, 4 + publicLen))
        ka2 == [ka1 EXCEPT !.serverPublicKey = u.pub]
    IN IF Len(key) < 4 THEN SkxFail(ka, errServerKeyExchange)
       ELSE IF key[1] # 3 THEN SkxFail(ka, errUnsupportedCurve)
       ELSE IF ~found.ok THEN SkxFail(ka1, errUnsupportedCurve)
       ELSE IF publicLen + 4 > Len(key) THEN SkxFail(ka1, errServerKeyExchange)
       ELSE IF ~u.ok THEN SkxFail(ka2, errServerKeyExchange)
       ELSE SkxVerify(ka2, cfg, clientHello, crt, Prefix(key, 4 + publicLen),
                      Slice(key, 4 + publicLen))

\* Curve.GenerateSharedSecret(priv, pub) with the scalar d of priv: the
\* x-coordinate of d * pub as one byte.  What an implementation does with a nil
\* key is not in the sources at hand: onNil is the outcome, a panic or an error.
CurveSharedSecret(curve, d, pub, onNil) ==
    IF d = Nil \/ pub = NoPoint THEN [secret |-> NoBytes, err |-> onNil]
    ELSE IF curve \in MontgomeryCurves
         THEN [secret |-> <<ModExp(pub.X, d, MontgomeryPrime)>>, err |-> ErrNil]
    ELSE LET j == CHOOSE i \in 1..(WeierstrassOrder - 1) : WeierstrassMultiples[i] = pub
             n == (d * j) % WeierstrassOrder
         IN IF n = 0 THEN [secret |-> NoBytes, err |-> "ecdh: point at infinity"]
            ELSE [secret |-> <<WeierstrassMultiples[n].X>>, err |-> ErrNil]

\* the outcomes of GenerateSharedSecret on a nil key
NilKeyOutcomes == {Panic, "ecdh: nil key"}

\* strings.Split(config.KexConfig, ","), on the strings the driver configures
KexConfigOptions(kexConfig) ==
    CASE kexConfig = "" -> <<"">>
      [] kexConfig = "COMPRESS," -> <<"COMPRESS", "">>
      [] kexConfig = "COMPRESS,256_ECP_INVALID_S5" -> <<"COMPRESS", "256_ECP_INVALID_S5">>
      [] kexConfig = "224_ECP_TWIST_S11,COMPRESS" -> <<"224_ECP_TWIST_S11", "COMPRESS">>
      [] kexConfig = "256_ECP_INVALID_S5,X25519_INVALID_S2"
             -> <<"256_ECP_INVALID_S5", "X25519_INVALID_S2">>
      [] kexConfig = "X25519_INVALID_S4,unknown" -> <<"X25519_INVALID_S4", "unknown">>
      [] OTHER -> <<kexConfig>>

\* the options of generateClientKeyExchange that carry a static payload
StaticPayloadOptions ==
    {"X25519_INVALID_S2", "X25519_INVALID_S4", "X25519_INVALID_S8", "X25519_TWIST_S4",
     "256_ECP_INVALID_S5", "256_ECP_TWIST_S5", "256_ECP_TWIST_S5_SHARED",
     "224_ECP_INVALID_S13", "224_ECP_TWIST_S11"}

\* the payload table with the values of the two smallest X25519 points exchanged
StaticPayloadSwapped(option) ==
    IF option = "X25519_INVALID_S2"
    THEN [mx |-> 1, my |-> Nil, curveID |-> Curve25519]
    ELSE [mx |-> 0, my |-> Nil, curveID |-> Curve25519]

\* what the case of a static-payload option assigns: mx, my (nil when the case
\* leaves it alone) and ka.curveID.  0 and 1 are the code's values; the 224- to
\* 256-bit decimals of the other options are scaled down to one byte each, all
\* different, the Weierstrass ones off the curve y^2 = x^3 + 2x + 2.
StaticPayload(option) ==
    CASE option = "X25519_INVALID_S2" -> [mx |-> 0, my |-> Nil, curveID |-> Curve25519]
      [] option = "X25519_INVALID_S4" -> [mx |-> 1, my |-> Nil, curveID |-> Curve25519]
      [] option = "X25519_INVALID_S8" -> [mx |-> 5, my |-> Nil, curveID |-> Curve25519]
      [] option = "X25519_TWIST_S4" -> [mx |-> 7, my |-> Nil, curveID |-> Curve25519]
      [] option = "256_ECP_INVALID_S5" -> [mx |-> 3, my |-> 4, curveID |-> CurveP256r1]
      [] option = "256_ECP_TWIST_S5" -> [mx |-> 8, my |-> 2, curveID |-> CurveP256r1]
      [] option = "256_ECP_TWIST_S5_SHARED" ->
             [mx |-> 10, my |-> 5, curveID |-> CurveP256r1]
      [] option = "224_ECP_INVALID_S13" -> [mx |-> 2, my |-> 9, curveID |-> CurveP224r1]
      [] option = "224_ECP_TWIST_S11" -> [mx |-> 11, my |-> 3, curveID |-> CurveP224r1]

RECURSIVE KexOptionLoop(_, _, _)
\* the loop over the options from index i on; st is
\* [compress, staticKex, mx, my, curveID, panic], curveID standing for ka.curveID
KexOptionLoop(options, i, st) ==
    IF i > Len(options) THEN st
    ELSE IF options[i] = "COMPRESS"
         THEN KexOptionLoop(options, i + 1, [st EXCEPT !.compress = TRUE])
    ELSE IF options[i] \in StaticPayloadOptions
         THEN LET p == StaticPayload(options[i])
              IN KexOptionLoop(options, i + 1,
                     [st EXCEPT !.mx = p.mx,
                                !.my = IF p.my = Nil THEN @ ELSE p.my,
                                !.curveID = p.curveID,
                                !.staticKex = TRUE])
    ELSE IF options[i] = "" THEN KexOptionLoop(options, i + 1, st)
    ELSE [st EXCEPT !.panic = TRUE]

ClientKeyExchangeBytes(serialized) == <<Len(serialized) % 256>> \o serialized

\* generateClientKeyExchange generating a key pair and running ECDH whatever the
\* options say
ecdheGenerateClientKeyExchangeAlwaysEcdh(ka, cfg, d, onNil) ==
    LET st == KexOptionLoop(KexConfigOptions(cfg.KexConfig), 1,
                  [compress |-> FALSE, staticKex |-> FALSE, mx |-> Nil, my |-> Nil,
                   curveID |-> ka.curveID, panic |-> FALSE])
        ka1 == [ka EXCEPT !.curveID = st.curveID]
        kaFresh == [ka1 EXCEPT !.privateKey = d,
                               !.clientPublicKey = CurvePublic(ka.curve, d)]
        s == CurveSharedSecret(ka.curve, d, ka.serverPublicKey, onNil)
        serialized == CurveMarshal(kaFresh.curve, kaFresh.clientPublicKey, st.compress)
    IN IF ka.curve = NoCurve
       THEN [ka |-> ka, pms |-> NoBytes, ckx |-> NoBytes, err |-> errMissingSKX]
       ELSE IF st.panic
            THEN [ka |-> ka1, pms |-> NoBytes, ckx |-> NoBytes, err |-> Panic]
       ELSE IF s.err # ErrNil
            THEN [ka |-> kaFresh, pms |-> NoBytes, ckx |-> NoBytes, err |-> s.err]
       ELSE [ka |-> kaFresh, pms |-> s.secret,
             ckx |-> ClientKeyExchangeBytes(serialized), err |-> ErrNil]

\* d is the scalar config.rand() gives GenerateKey, onNil what
\* GenerateSharedSecret does with a nil key; a panic leaves the object as the
\* loop left it
ecdheGenerateClientKeyExchange(ka, cfg, d, onNil) ==
    LET st == KexOptionLoop(KexConfigOptions(cfg.KexConfig), 1,
                  [compress |-> FALSE, staticKex |-> FALSE, mx |-> Nil, my |-> Nil,
                   curveID |-> ka.curveID, panic |-> FALSE])
        ka1 == [ka EXCEPT !.curveID = st.curveID]
        kaStatic == [ka1 EXCEPT !.curve = curveForCurveID(st.curveID).curve,
                                !.privateKey = Nil,
                                !.clientPublicKey = [X |-> st.mx, Y |-> st.my]]
        kaFresh == [ka1 EXCEPT !.privateKey = d,
                               !.clientPublicKey = CurvePublic(ka.curve, d)]
        s == CurveSharedSecret(ka.curve, d, ka.serverPublicKey, onNil)
        ka2 == IF st.staticKex THEN kaStatic ELSE kaFresh
        serialized == CurveMarshal(ka2.curve, ka2.clientPublicKey, st.compress)
    IN IF ka.curve = NoCurve
       THEN [ka |-> ka, pms |-> NoBytes, ckx |-> NoBytes, err |-> errMissingSKX]
       ELSE IF st.panic
            THEN [ka |-> ka1, pms |-> NoBytes, ckx |-> NoBytes, err |-> Panic]
       ELSE IF st.staticKex
            THEN [ka |-> kaStatic, pms |-> Bytes(st.mx),
                  ckx |-> ClientKeyExchangeBytes(serialized), err |-> ErrNil]
       ELSE IF s.err # ErrNil
            THEN [ka |-> kaFresh, pms |-> NoBytes, ckx |-> NoBytes, err |-> s.err]
       ELSE [ka |-> kaFresh, pms |-> s.secret,
             ckx |-> ClientKeyExchangeBytes(serialized), err |-> ErrNil]

\* processClientKeyExchange multiplying the server's own public point, not the
\* client's
ecdheProcessClientKeyExchangeOwnPoint(ka, ciphertext, onNil) ==
    LET u == CurveUnmarshal(ka.curve, Slice(ciphertext, 1))
        ka1 == [ka EXCEPT !.clientX = u.pub.X, !.clientY = u.pub.Y]
        s == CurveSharedSecret(ka.curve, ka.privateKey,
                               CurvePublic(ka.curve, ka.privateKey), onNil)
    IN IF Len(ciphertext) = 0 \/ ciphertext[1] # Len(ciphertext) - 1
       THEN [ka |-> ka, pms |-> NoBytes, err |-> errClientKeyExchange]
       ELSE IF ka.curve = NoCurve THEN [ka |-> ka, pms |-> NoBytes, err |-> Panic]
       ELSE IF ~u.ok THEN [ka |-> ka, pms |-> NoBytes, err |-> errClientKeyExchange]
       ELSE IF s.err # ErrNil THEN [ka |-> ka1, pms |-> NoBytes, err |-> s.err]
       ELSE [ka |-> ka1, pms |-> s.secret, err |-> ErrNil]

\* a call of ka.curve.Unmarshal on a nil curve panics
ecdheProcessClientKeyExchange(ka, ciphertext, onNil) ==
    LET u == CurveUnmarshal(ka.curve, Slice(ciphertext, 1))
        ka1 == [ka EXCEPT !.clientX = u.pub.X, !.clientY = u.pub.Y]
        s == CurveSharedSecret(ka.curve, ka.privateKey, u.pub, onNil)
    IN IF Len(ciphertext) = 0 \/ ciphertext[1] # Len(ciphertext) - 1
       THEN [ka |-> ka, pms |-> NoBytes, err |-> errClientKeyExchange]
       ELSE IF ka.curve = NoCurve THEN [ka |-> ka, pms |-> NoBytes, err |-> Panic]
       ELSE IF ~u.ok THEN [ka |-> ka, pms |-> NoBytes, err |-> errClientKeyExchange]
       ELSE IF s.err # ErrNil THEN [ka |-> ka1, pms |-> NoBytes, err |-> s.err]
       ELSE [ka |-> ka1, pms |-> s.secret, err |-> ErrNil]

(***************************************************************************)
(* dheKeyAgreement.  The object is                                         *)
(* [auth, p, g, yTheirs, yOurs, xOurs, yServer, yClient, verifyError].     *)
(* The RFC 5114 group of generateServerKeyExchange is scaled down to the   *)
(* prime DHGroupP = 331 with the subgroup of prime order DHGroupQ = 11     *)
(* generated by DHGroupG = 270, so that p and g take two bytes on the wire *)
(* and public values take one or two.                                      *)
(***************************************************************************)
DHGroupP == 331
DHGroupG == 270
DHGroupQ == 11

NewDheKeyAgreement(auth) ==
    [auth |-> auth, p |-> Nil, g |-> Nil, yTheirs |-> Nil, yOurs |-> Nil, xOurs |-> Nil,
     yServer |-> Nil, yClient |-> Nil, verifyError |-> ErrNil]

\* x is the exponent rand.Int(config.rand(), q) gives, k the signer's nonce
dheGenerateServerKeyExchange(ka, cfg, crt, clientHello, x, k) ==
    LET yOurs == ModExp(DHGroupG, x, DHGroupP)
        ka1 == [ka EXCEPT !.p = DHGroupP, !.g = DHGroupG, !.xOurs = x,
                          !.yOurs = yOurs, !.yServer = yOurs]
        serverDHParams == LenPrefixed(ka1.p) \o LenPrefixed(ka1.g) \o LenPrefixed(yOurs)
        s == signParameters(ka1.auth, cfg, crt, clientHello, serverDHParams, k)
    IN [ka |-> [ka1 EXCEPT !.auth = s.auth], skx |-> s.skx, err |-> s.err]

\* processClientKeyExchange raising its own public value, not the client's
dheProcessClientKeyExchangeOwnPublic(ka, ciphertext) ==
    LET yTheirs == SetBytes(Slice(ciphertext, 2))
        ka1 == [ka EXCEPT !.yClient = yTheirs]
    IN IF Len(ciphertext) < 2
       THEN [ka |-> ka, pms |-> NoBytes, err |-> errClientKeyExchange]
       ELSE IF ReadU16(ciphertext) # Len(ciphertext) - 2
            THEN [ka |-> ka, pms |-> NoBytes, err |-> errClientKeyExchange]
       ELSE IF yTheirs <= 0
            THEN [ka |-> ka1, pms |-> NoBytes, err |-> errClientKeyExchange]
       ELSE IF ka.p = Nil
            THEN [ka |-> ka1, pms |-> NoBytes, err |-> Panic]
       ELSE IF yTheirs >= ka.p
            THEN [ka |-> ka1, pms |-> NoBytes, err |-> errClientKeyExchange]
       ELSE [ka |-> ka1, pms |-> Bytes(ModExp(ka.yOurs, ka.xOurs, ka.p)), err |-> ErrNil]

\* processClientKeyExchange taking the client's public value from yClient when
\* one is recorded there
dheProcessClientKeyExchangeRecorded(ka, ciphertext) ==
    LET yTheirs == IF ka.yClient # Nil THEN ka.yClient
                   ELSE SetBytes(Slice(ciphertext, 2))
        ka1 == [ka EXCEPT !.yClient = yTheirs]
    IN IF Len(ciphertext) < 2
       THEN [ka |-> ka, pms |-> NoBytes, err |-> errClientKeyExchange]
       ELSE IF ReadU16(ciphertext) # Len(ciphertext) - 2
            THEN [ka |-> ka, pms |-> NoBytes, err |-> errClientKeyExchange]
       ELSE IF yTheirs <= 0
            THEN [ka |-> ka1, pms |-> NoBytes, err |-> errClientKeyExchange]
       ELSE IF ka.p = Nil
            THEN [ka |-> ka1, pms |-> NoBytes, err |-> Panic]
       ELSE IF yTheirs >= ka.p
            THEN [ka |-> ka1, pms |-> NoBytes, err |-> errClientKeyExchange]
       ELSE IF ka.xOurs = Nil
            THEN [ka |-> ka1, pms |-> NoBytes, err |-> Panic]
       ELSE [ka |-> ka1, pms |-> Bytes(ModExp(yTheirs, ka.xOurs, ka.p)), err |-> ErrNil]

dheProcessClientKeyExchange(ka, ciphertext) ==
    LET yTheirs == SetBytes(Slice(ciphertext, 2))
        ka1 == [ka EXCEPT !.yClient = yTheirs]
    IN IF Len(ciphertext) < 2
       THEN [ka |-> ka, pms |-> NoBytes, err |-> errClientKeyExchange]
       ELSE IF ReadU16(ciphertext) # Len(ciphertext) - 2
            THEN [ka |-> ka, pms |-> NoBytes, err |-> errClientKeyExchange]
       ELSE IF yTheirs <= 0
            THEN [ka |-> ka1, pms |-> NoBytes, err |-> errClientKeyExchange]
       ELSE IF ka.p = Nil
            THEN [ka |-> ka1, pms |-> NoBytes, err |-> Panic]
       ELSE IF yTheirs >= ka.p
            THEN [ka |-> ka1, pms |-> NoBytes, err |-> errClientKeyExchange]
       ELSE IF ka.xOurs = Nil
            THEN [ka |-> ka1, pms |-> NoBytes, err |-> Panic]
       ELSE [ka |-> ka1, pms |-> Bytes(ModExp(yTheirs, ka.xOurs, ka.p)), err |-> ErrNil]

\* processServerKeyExchange with the upper range check off by one: y = p passes
dheProcessServerKeyExchangeOffByOne(ka, cfg, clientHello, crt, key) ==
    LET pLen == ReadU16(key)
        k1 == Slice(key, 2)
        ka1 == [ka EXCEPT !.p = SetBytes(Prefix(k1, pLen))]
        k2 == Slice(k1, pLen)
        gLen == ReadU16(k2)
        k3 == Slice(k2, 2)
        ka2 == [ka1 EXCEPT !.g = SetBytes(Prefix(k3, gLen))]
        k4 == Slice(k3, gLen)
        yLen == ReadU16(k4)
        k5 == Slice(k4, 2)
        yTheirs == SetBytes(Prefix(k5, yLen))
        ka3 == [ka2 EXCEPT !.yTheirs = yTheirs, !.yServer = yTheirs]
        sig == Slice(k5, yLen)
        serverDHParams == Prefix(key, Len(key) - Len(sig))
    IN IF Len(key) < 2 THEN SkxFail(ka, errServerKeyExchange)
       ELSE IF Len(k1) < pLen THEN SkxFail(ka, errServerKeyExchange)
       ELSE IF Len(k2) < 2 THEN SkxFail(ka1, errServerKeyExchange)
       ELSE IF Len(k3) < gLen THEN SkxFail(ka1, errServerKeyExchange)
       ELSE IF Len(k4) < 2 THEN SkxFail(ka2, errServerKeyExchange)
       ELSE IF Len(k5) < yLen THEN SkxFail(ka2, errServerKeyExchange)
       ELSE IF yTheirs <= 0 \/ yTheirs > ka3.p THEN SkxFail(ka3, errServerKeyExchange)
       ELSE SkxVerify(ka3, cfg, clientHello, crt, serverDHParams, sig)

dheProcessServerKeyExchange(ka, cfg, clientHello, crt, key) ==
    LET pLen == ReadU16(key)
        k1 == Slice(key, 2)
        ka1 == [ka EXCEPT !.p = SetBytes(Prefix(k1, pLen))]
        k2 == Slice(k1, pLen)
        gLen == ReadU16(k2)
        k3 == Slice(k2, 2)
        ka2 == [ka1 EXCEPT !.g = SetBytes(Prefix(k3, gLen))]
        k4 == Slice(k3, gLen)
        yLen == ReadU16(k4)
        k5 == Slice(k4, 2)
        yTheirs == SetBytes(Prefix(k5, yLen))
        ka3 == [ka2 EXCEPT !.yTheirs = yTheirs, !.yServer = yTheirs]
        sig == Slice(k5, yLen)
        serverDHParams == Prefix(key, Len(key) - Len(sig))
    IN IF Len(key) < 2 THEN SkxFail(ka, errServerKeyExchange)
       ELSE IF Len(k1) < pLen THEN SkxFail(ka, errServerKeyExchange)
       ELSE IF Len(k2) < 2 THEN SkxFail(ka1, errServerKeyExchange)
       ELSE IF Len(k3) < gLen THEN SkxFail(ka1, errServerKeyExchange)
       ELSE IF Len(k4) < 2 THEN SkxFail(ka2, errServerKeyExchange)
       ELSE IF Len(k5) < yLen THEN SkxFail(ka2, errServerKeyExchange)
       ELSE IF yTheirs <= 0 \/ yTheirs >= ka3.p THEN SkxFail(ka3, errServerKeyExchange)
       ELSE SkxVerify(ka3, cfg, clientHello, crt, serverDHParams, sig)

\* the token k of "g3", "g5", "g7"; 0 for every other KexConfig
SubgroupOrder(kexConfig) ==
    CASE kexConfig = "g3" -> 3
      [] kexConfig = "g5" -> 5
      [] kexConfig = "g7" -> 7
      [] OTHER -> 0

\* what the resampling loop computes from a draw h
SubgroupElement(p, k, h) == ModExp(h, (p - 1) \div k, p)

\* the values config.rand() can give the call as its last (accepted) draw
DheClientDraws(ka, cfg) ==
    LET k == SubgroupOrder(cfg.KexConfig)
    IN IF ka.p = Nil \/ ka.g = Nil \/ ka.yTheirs = Nil THEN {0}
       ELSE IF cfg.KexConfig \in {"0", "1", "pm1"} THEN {0}
       ELSE IF k # 0
            THEN IF (ka.p - 1) % k = 0
                 THEN {h \in 0..(ka.p - 1) : SubgroupElement(ka.p, k, h) # 1}
                 ELSE {0}
       ELSE IF ka.p <= 0 THEN {0} ELSE 0..(ka.p - 1)

\* the tail of generateClientKeyExchange (lines 945-955)
DheCkxFinish(ka, yOurs, xOurs, preMasterSecret) ==
    [ka |-> [ka EXCEPT !.yOurs = yOurs, !.xOurs = xOurs, !.yClient = yOurs],
     pms |-> preMasterSecret, ckx |-> LenPrefixed(yOurs), err |-> ErrNil]

DheCkxFail(ka, e) == [ka |-> ka, pms |-> NoBytes, ckx |-> NoBytes, err |-> e]

\* h is the last draw of config.rand()
dheGenerateClientKeyExchange(ka, cfg, h) ==
    LET k == SubgroupOrder(cfg.KexConfig)
    IN IF ka.p = Nil \/ ka.g = Nil \/ ka.yTheirs = Nil THEN DheCkxFail(ka, errMissingSKX)
       ELSE CASE cfg.KexConfig = "0" -> DheCkxFinish(ka, 0, 0, Bytes(0))
              [] cfg.KexConfig = "1" -> DheCkxFinish(ka, 1, 0, Bytes(1))
              [] cfg.KexConfig = "pm1" -> DheCkxFinish(ka, ka.p - 1, 0, Bytes(ka.p - 1))
              [] k # 0 ->
                   IF (ka.p - 1) % k = 0
                   THEN LET gen == SubgroupElement(ka.p, k, h)
                        IN DheCkxFinish(ka, gen, 0, Bytes(gen))
                   ELSE DheCkxFail(ka, IF k = 3 THEN "order not divisible by 3"
                                       ELSE IF k = 5 THEN "order not divisible by 5"
                                       ELSE "order not divisible by 7")
              [] OTHER ->
                   IF ka.p <= 0 THEN DheCkxFail(ka, Panic)
                   ELSE DheCkxFinish(ka, ModExp(ka.g, h, ka.p), h,
                                     Bytes(ModExp(ka.yTheirs, h, ka.p)))

(***************************************************************************)
(* The handshake driver's inputs.                                          *)
(***************************************************************************)
RsaKeyA == [type |-> "rsa", N |-> 3233, E |-> 17]

RsaKeyB == [type |-> "rsa", N |-> 3127, E |-> 7]

EcdsaPrivateKey(d) == [type |-> "ecdsa", D |-> d]

EcdsaPublicKey(d) == [type |-> "augECDSA", Y |-> PublicOf(d)]

DsaPublicKey(d) == [type |-> "dsa", Y |-> PublicOf(d)]

\* clientHello.random and serverHello.random (32 bytes each, shortened)
ClientRandom == <<17, 34, 51, 68>>

ServerRandom == <<85, 102, 119, 136>>

\* the result of an operation, as the driver sees it
Result(op, in, err, pms, out, digest, verifyCalled, checked) ==
    [op |-> op, in |-> in, err |-> err, pms |-> pms, out |-> out, digest |-> digest,
     verifyCalled |-> verifyCalled, checked |-> checked]

NoResult == Result("none", NoBytes, ErrNil, NoBytes, NoBytes, NoBytes, FALSE, FALSE)

Hello(vers, sigAndHashes, curves) ==
    [vers |-> vers, random |-> ClientRandom, serverRandom |-> ServerRandom,
     signatureAndHashes |-> sigAndHashes, supportedCurves |-> curves]

Config(kexConfig, skipVerify, serverList, clientList, curves) ==
    [KexConfig |-> kexConfig, InsecureSkipVerify |-> skipVerify,
     signatureAndHashesForServer |-> serverList,
     signatureAndHashesForClient |-> clientList,
     curvePreferences |-> curves, ExportRSAKey |-> NoKey]

DefaultSigAndHashes == <<SigAndHash(hashSHA256, signatureRSA), SigAndHash(hashSHA1, signatureRSA)>>

(***************************************************************************)
(* SpecDHE: one DHE handshake between an honest server and an honest       *)
(* client, driven in the order generateServerKeyExchange,                  *)
(* processServerKeyExchange, generateClientKeyExchange,                    *)
(* processClientKeyExchange; the driver stops at the first error.          *)
(***************************************************************************)
DheKexConfigs == {"", "0", "1", "pm1", "g3", "g5", "g7"}

\* the certificate key the client holds and InsecureSkipVerify: a matching key
\* verified, or a foreign key with verification errors skipped
DheTrust == {<<RsaKeyA, FALSE>>, <<RsaKeyB, TRUE>>}

DheAuths ==
    {NilAuth, SignedAuth(VersionTLS10, signatureRSA), SignedAuth(VersionTLS12, signatureRSA)}

InitDHE ==
    /\ \E kex \in DheKexConfigs, t \in DheTrust :
         /\ config = Config(kex, t[2], DefaultSigAndHashes, DefaultSigAndHashes, <<>>)
         /\ cert = [PrivateKey |-> RsaKeyA, PublicKey |-> t[1]]
    /\ hello = Hello(VersionTLS12, DefaultSigAndHashes, <<>>)
    /\ \E auth \in DheAuths :
         /\ srv = NewDheKeyAgreement(auth)
         /\ cli = NewDheKeyAgreement(auth)
    /\ skx = NoBytes
    /\ ckx = NoBytes
    /\ ret = [srv |-> NoResult, cli |-> NoResult]
    /\ pc = "start"
    /\ calls = 0
    /\ role = [side |-> "both", family |-> "dhe"]

DheSrvGenerate ==
    /\ pc = "start"
    /\ \E x \in 0..(DHGroupQ - 1) :
         LET r == dheGenerateServerKeyExchange(srv, config, cert, hello, x, 1)
         IN /\ srv' = r.ka
            /\ skx' = r.skx.key
            /\ ret' = [ret EXCEPT !.srv = Result("generateServerKeyExchange", NoBytes,
                                      r.err, NoBytes, r.skx.key, r.skx.digest, FALSE, FALSE)]
            /\ pc' = IF r.err = ErrNil THEN "skxSent" ELSE "aborted"
    /\ calls' = calls + 1
    /\ UNCHANGED <<config, hello, cert, cli, ckx, role>>

DheCliProcess ==
    /\ pc = "skxSent"
    /\ LET r == dheProcessServerKeyExchange(cli, config, hello, cert, skx)
       IN /\ cli' = r.ka
          /\ ret' = [ret EXCEPT !.cli = Result("processServerKeyExchange", skx, r.err,
                                    NoBytes, NoBytes, r.digest, r.verifyCalled, r.checked)]
          /\ pc' = IF r.err = ErrNil THEN "skxDone" ELSE "aborted"
    /\ calls' = calls + 1
    /\ UNCHANGED <<config, hello, cert, srv, skx, ckx, role>>

DheCliGenerate ==
    /\ pc = "skxDone"
    /\ \E h \in DheClientDraws(cli, config) :
         LET r == dheGenerateClientKeyExchange(cli, config, h)
         IN /\ cli' = r.ka
            /\ ckx' = r.ckx
            /\ ret' = [ret EXCEPT !.cli = Result("generateClientKeyExchange", NoBytes,
                                      r.err, r.pms, r.ckx, NoBytes, FALSE, FALSE)]
            /\ pc' = IF r.err = ErrNil THEN "ckxSent" ELSE "aborted"
    /\ calls' = calls + 1
    /\ UNCHANGED <<config, hello, cert, srv, skx, role>>

DheSrvProcess ==
    /\ pc = "ckxSent"
    /\ LET r == dheProcessClientKeyExchange(srv, ckx)
       IN /\ srv' = r.ka
          /\ ret' = [ret EXCEPT !.srv = Result("processClientKeyExchange", ckx, r.err,
                                    r.pms, NoBytes, NoBytes, FALSE, FALSE)]
          /\ pc' = "done"
    /\ calls' = calls + 1
    /\ UNCHANGED <<config, hello, cert, cli, skx, ckx, role>>

NextDHE == DheSrvGenerate \/ DheCliProcess \/ DheCliGenerate \/ DheSrvProcess

SpecDHE == InitDHE /\ [][NextDHE]_vars

\* C1: in a DHE handshake with the default KexConfig run in the order
\* generateServerKeyExchange, processServerKeyExchange, generateClientKeyExchange,
\* processClientKeyExchange, the server accepts the client's message and both
\* sides return the same pre-master secret, the minimal big-endian bytes of
\* g^(x*y) mod p for the server's exponent x and the client's exponent y.
DheBothDeriveSharedSecret ==
    (pc = "done" /\ config.KexConfig = "") =>
        /\ ret.srv.err = ErrNil
        /\ ret.srv.pms = ret.cli.pms
        /\ ret.cli.pms = Bytes(ModExp(DHGroupG, srv.xOurs * cli.xOurs, DHGroupP))

\* a completed default handshake whose shared secret takes two bytes
DheSharedSecretWitness ==
    /\ pc = "done"
    /\ config.KexConfig = ""
    /\ srv.xOurs > 1
    /\ cli.xOurs > 1
    /\ Len(ret.srv.pms) = 2
    /\ ret.srv.pms = ret.cli.pms

(***************************************************************************)
(* SpecPeer: one key-agreement object, server or client, against an        *)
(* arbitrary peer.  The driver calls the object's operations in any order, *)
(* at most MaxCalls times, on messages drawn from bounded sets of          *)
(* well-framed, out-of-range, mis-signed and truncated messages; a panic   *)
(* ends the run.                                                           *)
(***************************************************************************)
\* all the prefixes of a message, the message included
Prefixes(m) == {Prefix(m, n) : n \in 0..Len(m)}

\* the signed blob an honest server holding crt appends to params
HonestBlob(auth, cfg, crt, clientHello, params) ==
    LET s == signParameters(auth, cfg, crt, clientHello, params, 1)
    IN IF s.err = ErrNil THEN Slice(s.skx.key, Len(params)) ELSE <<>>

\* the blobs a peer appends to params: the honest one, the honest one with its last
\* byte changed, one with a wrong declared length, a foreign signature type, nothing
PeerBlobs(auth, cfg, crt, clientHello, params) ==
    LET b == HonestBlob(auth, cfg, crt, clientHello, params)
    IN {b, <<>>, <<0, 3, 9>>, <<hashSHA256, signatureDSA, 0, 1, 9>>,
        <<hashSHA512, signatureRSA, 0, 1, 9>>}
       \cup (IF Len(b) > 0 THEN {[b EXCEPT ![Len(b)] = (b[Len(b)] + 1) % 256]} ELSE {})

\* the (p, g, y) a peer offers: moduli 0, 7 and 23 with y around 0 and p, and a
\* two-byte y
PeerDhParams ==
    {<<0, 2, 0>>, <<0, 2, 1>>, <<23, 2, 256>>}
    \cup {<<7, 2, y>> : y \in {0, 1, 6, 7, 8}} \cup {<<23, 2, y>> : y \in {0, 22, 23, 24}}

\* the accepted parameters a peer also sends mis-signed
PeerDhSignedParams == {<<23, 2, 22>>, <<7, 2, 6>>}

DhParamsBytes(t) == LenPrefixed(t[1]) \o LenPrefixed(t[2]) \o LenPrefixed(t[3])

\* the ServerKeyExchange messages a peer sends a DHE client
PeerDheSkx(auth, cfg, crt, clientHello) ==
    {DhParamsBytes(t) \o HonestBlob(auth, cfg, crt, clientHello, DhParamsBytes(t))
       : t \in PeerDhParams}
    \cup UNION {{DhParamsBytes(t) \o b
                  : b \in PeerBlobs(auth, cfg, crt, clientHello, DhParamsBytes(t))}
               : t \in PeerDhSignedParams}
    \cup Prefixes(DhParamsBytes(<<23, 2, 6>>))
    \cup {<<0, 1, 23, 0, 9, 2>>, <<0, 1, 23, 0, 1, 2, 0, 5, 6>>, <<0, 4, 23>>}

\* the ClientKeyExchange messages a peer sends a DHE server
PeerDheCkx ==
    {LenPrefixed(y) : y \in {0, 1, 2, 255, 256, DHGroupP - 1, DHGroupP, DHGroupP + 1}}
    \cup {<<>>, <<0>>, <<0, 1>>, <<0, 2, 5>>, <<0, 1, 5, 5>>, <<0, 1, 0>>, <<0, 2, 0, 0>>,
          <<0, 3, 0, 1, 75>>, <<0, 2, 1, 76>>}

PeerAuths ==
    {NilAuth, SignedAuth(VersionTLS10, signatureRSA), SignedAuth(VersionTLS12, signatureRSA)}

PeerKexConfigs == {"", "g3", "unknown"}

InitPeerDHE ==
    /\ \E kex \in PeerKexConfigs, skip \in BOOLEAN :
         config = Config(kex, skip, DefaultSigAndHashes, DefaultSigAndHashes, <<>>)
    /\ cert = [PrivateKey |-> RsaKeyA, PublicKey |-> RsaKeyA]
    /\ hello = Hello(VersionTLS12, DefaultSigAndHashes, <<>>)
    /\ \E auth \in PeerAuths :
         /\ srv = NewDheKeyAgreement(auth)
         /\ cli = NewDheKeyAgreement(auth)
    /\ \E side \in {"server", "client"} : role = [side |-> side, family |-> "dhe"]
    /\ (role.side = "server") => (config.KexConfig = "" /\ ~config.InsecureSkipVerify)
    /\ skx = NoBytes
    /\ ckx = NoBytes
    /\ ret = [srv |-> NoResult, cli |-> NoResult]
    /\ pc = "ready"
    /\ calls = 0

\* the driver may call an operation of the family on the side
PeerMayCall(side, family) ==
    /\ pc = "ready"
    /\ calls < MaxCalls
    /\ role = [side |-> side, family |-> family]

PeerDheSrvGenerate ==
    /\ PeerMayCall("server", "dhe")
    /\ \E x \in 0..(DHGroupQ - 1) :
         LET r == dheGenerateServerKeyExchange(srv, config, cert, hello, x, 1)
         IN /\ srv' = r.ka
            /\ skx' = r.skx.key
            /\ ret' = [ret EXCEPT !.srv = Result("generateServerKeyExchange", NoBytes,
                                      r.err, NoBytes, r.skx.key, r.skx.digest, FALSE, FALSE)]
    /\ calls' = calls + 1
    /\ UNCHANGED <<config, hello, cert, cli, ckx, pc, role>>

PeerDheSrvProcess ==
    /\ PeerMayCall("server", "dhe")
    /\ \E m \in PeerDheCkx :
         LET r == dheProcessClientKeyExchange(srv, m)
         IN /\ srv' = r.ka
            /\ ret' = [ret EXCEPT !.srv = Result("processClientKeyExchange", m, r.err,
                                      r.pms, NoBytes, NoBytes, FALSE, FALSE)]
            /\ pc' = IF r.err = Panic THEN "crashed" ELSE pc
    /\ calls' = calls + 1
    /\ UNCHANGED <<config, hello, cert, cli, skx, ckx, role>>

PeerDheCliProcess ==
    /\ PeerMayCall("client", "dhe")
    /\ \E m \in PeerDheSkx(cli.auth, config, cert, hello) :
         LET r == dheProcessServerKeyExchange(cli, config, hello, cert, m)
         IN /\ cli' = r.ka
            /\ ret' = [ret EXCEPT !.cli = Result("processServerKeyExchange", m, r.err,
                                      NoBytes, NoBytes, r.digest, r.verifyCalled, r.checked)]
    /\ calls' = calls + 1
    /\ UNCHANGED <<config, hello, cert, srv, skx, ckx, pc, role>>

\* the values rand.Int gives the client a peer talks to
PeerDraws == {0, 1, 2, 5, 6, 22}

PeerDheCliGenerate ==
    /\ PeerMayCall("client", "dhe")
    /\ \E h \in DheClientDraws(cli, config) \cap PeerDraws :
         LET r == dheGenerateClientKeyExchange(cli, config, h)
         IN /\ cli' = r.ka
            /\ ckx' = r.ckx
            /\ ret' = [ret EXCEPT !.cli = Result("generateClientKeyExchange", NoBytes,
                                      r.err, r.pms, r.ckx, NoBytes, FALSE, FALSE)]
            /\ pc' = IF r.err = Panic THEN "crashed" ELSE pc
    /\ calls' = calls + 1
    /\ UNCHANGED <<config, hello, cert, srv, skx, role>>

(***************************************************************************)
(* SpecPeer, the RSA key agreement.                                        *)
(***************************************************************************)
\* the keys rsa.GenerateKey(config.rand(), 512) can give
RsaGeneratedKeys == {RsaKeyB}

\* the fillings of the 46 random bytes of a pre-master secret
RandomFills == {Fill(PreMasterSecretLen - 2, 1), Fill(PreMasterSecretLen - 2, 201)}

\* a pre-master secret a peer encrypts
PeerPms == U16(VersionTLS10) \o Fill(PreMasterSecretLen - 2, 9)

\* the ClientKeyExchange messages a peer sends an RSA server: a ciphertext under
\* each key, bare and behind a right or wrong length prefix, one with a byte in
\* front of it, and short messages
PeerRsaCkx ==
    UNION {LET c == EncryptPKCS1v15(key, PeerPms, 5).c
           IN {c, U16(Len(c)) \o c, U16(Len(c) - 1) \o c, U16(Len(c)) \o c \o <<0>>}
           : key \in {RsaKeyA, RsaKeyB}}
    \cup {LET c == EncryptPKCS1v15(RsaKeyA, PeerPms, 5).c
          IN U16(Len(c) + 1) \o <<b>> \o c : b \in {0, 255}}
    \cup {<<>>, <<7>>, <<0, 0>>, <<0, 1, 5>>, <<0, 5>>, <<5, 6>>, <<0, 1>>}

\* the (N, E) a peer offers: the generated key, a modulus too short for the
\* pre-master secret, a zero modulus
PeerRsaParams == {<<3127, 7>>, <<12, 3>>, <<0, 3>>}

RsaParamsBytes(t) == LenPrefixed(t[1]) \o LenPrefixed(t[2])

\* the ServerKeyExchange messages a peer sends an RSA client
PeerRsaSkx(auth, cfg, crt, clientHello) ==
    {RsaParamsBytes(t) \o HonestBlob(auth, cfg, crt, clientHello, RsaParamsBytes(t))
       : t \in PeerRsaParams}
    \cup {RsaParamsBytes(<<3127, 7>>) \o b
            : b \in PeerBlobs(auth, cfg, crt, clientHello, RsaParamsBytes(<<3127, 7>>))}
    \cup Prefixes(RsaParamsBytes(<<3127, 7>>))
    \cup {LenPrefixed(3127) \o <<0, 5, 1, 0, 0, 0, 1>>, LenPrefixed(3127) \o <<0, 5, 1>>,
          LenPrefixed(3127) \o <<0, 4, 1, 0, 0, 1>>, <<0, 9, 12>>}

RsaVersions == {VersionSSL30, VersionTLS10, VersionTLS12}

InitPeerRSA ==
    /\ \E skip \in BOOLEAN, export \in {NoKey, RsaKeyB} :
         config = [Config("", skip, DefaultSigAndHashes, DefaultSigAndHashes, <<>>)
                      EXCEPT !.ExportRSAKey = export]
    /\ \E pub \in {RsaKeyA, DsaPublicKey(3)} :
         cert = [PrivateKey |-> RsaKeyA, PublicKey |-> pub]
    /\ hello = Hello(VersionTLS12, DefaultSigAndHashes, <<>>)
    /\ \E version \in RsaVersions, ephemeral \in BOOLEAN :
       \E auth \in {NilAuth, SignedAuth(version, signatureRSA)} :
         /\ srv = NewRsaKeyAgreement(auth, version, ephemeral)
         /\ cli = NewRsaKeyAgreement(auth, version, ephemeral)
    /\ \E side \in {"server", "client"} : role = [side |-> side, family |-> "rsa"]
    /\ (role.side = "server") => (~config.InsecureSkipVerify /\ cert.PublicKey = RsaKeyA)
    /\ (role.side = "client") => (config.ExportRSAKey = NoKey)
    /\ skx = NoBytes
    /\ ckx = NoBytes
    /\ ret = [srv |-> NoResult, cli |-> NoResult]
    /\ pc = "ready"
    /\ calls = 0

PeerRsaSrvGenerate ==
    /\ PeerMayCall("server", "rsa")
    /\ \E genKey \in RsaGeneratedKeys :
         LET r == rsaGenerateServerKeyExchange(srv, config, cert, hello, genKey, 1)
         IN /\ srv' = r.ka
            /\ skx' = r.skx.key
            /\ ret' = [ret EXCEPT !.srv = Result("generateServerKeyExchange", NoBytes,
                                      r.err, NoBytes, r.skx.key, r.skx.digest, FALSE, FALSE)]
    /\ calls' = calls + 1
    /\ UNCHANGED <<config, hello, cert, cli, ckx, pc, role>>

PeerRsaSrvProcess ==
    /\ PeerMayCall("server", "rsa")
    /\ \E m \in PeerRsaCkx, rnd \in RandomFills :
         LET r == rsaProcessClientKeyExchange(srv, cert, m, rnd)
         IN /\ srv' = r.ka
            /\ ret' = [ret EXCEPT !.srv = Result("processClientKeyExchange", m, r.err,
                                      r.pms, NoBytes, NoBytes, FALSE, FALSE)
                                  @@ [rnd |-> rnd]]
            /\ pc' = IF r.err = Panic THEN "crashed" ELSE pc
    /\ calls' = calls + 1
    /\ UNCHANGED <<config, hello, cert, cli, skx, ckx, role>>

PeerRsaCliProcess ==
    /\ PeerMayCall("client", "rsa")
    /\ \E m \in PeerRsaSkx(cli.auth, config, cert, hello) :
         LET r == rsaProcessServerKeyExchange(cli, config, hello, cert, m)
         IN /\ cli' = r.ka
            /\ ret' = [ret EXCEPT !.cli = Result("processServerKeyExchange", m, r.err,
                                      NoBytes, NoBytes, r.digest, r.verifyCalled, r.checked)]
    /\ calls' = calls + 1
    /\ UNCHANGED <<config, hello, cert, srv, skx, ckx, pc, role>>

PeerRsaCliGenerate ==
    /\ PeerMayCall("client", "rsa")
    /\ \E rnd \in RandomFills :
         LET r == rsaGenerateClientKeyExchange(cli, hello, cert, rnd, 5)
         IN /\ cli' = r.ka
            /\ ckx' = r.ckx
            /\ ret' = [ret EXCEPT !.cli = Result("generateClientKeyExchange", NoBytes,
                                      r.err, r.pms, r.ckx, NoBytes, FALSE, FALSE)]
    /\ calls' = calls + 1
    /\ UNCHANGED <<config, hello, cert, srv, skx, pc, role>>

(***************************************************************************)
(* SpecPeer, the ECDHE key agreement.                                      *)
(***************************************************************************)
\* identifiers curveForCurveID has no case for (4 is sect193r1)
UnknownCurveIDs == {4}

\* the identifiers a server configuration can prefer: CurvePreferences is a
\* slice of 16-bit values the caller fills
PreferredCurveIDs == {NoCurve, CurveP256r1, Curve25519} \cup UnknownCurveIDs

\* the identifiers a ClientHello can list: any 16-bit value, zero included
OfferedCurveIDs == {NoCurve, CurveP256r1, Curve25519} \cup UnknownCurveIDs

EcdhParamsBytes(curveID, point) ==
    <<3, curveID \div 256, curveID % 256, Len(point)>> \o point

\* the ServerKeyExchange messages a peer sends an ECDHE client
PeerEcdheSkx(auth, cfg, crt, clientHello) ==
    {p \o HonestBlob(auth, cfg, crt, clientHello, p)
       : p \in {EcdhParamsBytes(CurveP256r1, <<4, 6, 3>>),
                EcdhParamsBytes(CurveP256r1, <<4, 6, 4>>),
                EcdhParamsBytes(CurveP256r1, <<3, 6>>),
                EcdhParamsBytes(Curve25519, <<9>>),
                EcdhParamsBytes(Curve25519, <<13>>)}
               \cup {EcdhParamsBytes(id, <<4, 6, 3>>) : id \in UnknownCurveIDs}}
    \cup {EcdhParamsBytes(CurveP256r1, <<4, 5, 1>>) \o b
            : b \in PeerBlobs(auth, cfg, crt, clientHello,
                              EcdhParamsBytes(CurveP256r1, <<4, 5, 1>>))}
    \cup Prefixes(EcdhParamsBytes(CurveP256r1, <<4, 5, 1>>))
    \cup {<<1, 0, 23, 3, 4, 5, 1>>, <<3, 0, 23, 9, 4, 5, 1>>}

InitPeerECDHE ==
    /\ \E skip \in BOOLEAN, prefs \in SeqsUpTo(PreferredCurveIDs, MaxListLen) :
         config = Config("", skip, DefaultSigAndHashes, DefaultSigAndHashes, prefs)
    /\ cert = [PrivateKey |-> RsaKeyA, PublicKey |-> RsaKeyA]
    /\ \E offered \in SeqsUpTo(OfferedCurveIDs, MaxListLen) :
         hello = Hello(VersionTLS12, DefaultSigAndHashes, offered)
    /\ \E auth \in PeerAuths :
         /\ srv = NewEcdheKeyAgreement(auth)
         /\ cli = NewEcdheKeyAgreement(auth)
    /\ \E side \in {"server", "client"} : role = [side |-> side, family |-> "ecdhe"]
    /\ (role.side = "server") =>
           (~config.InsecureSkipVerify /\ srv.auth = SignedAuth(VersionTLS12, signatureRSA))
    /\ (role.side = "client") =>
           (config.curvePreferences = <<>> /\ hello.supportedCurves = <<>>)
    /\ skx = NoBytes
    /\ ckx = NoBytes
    /\ ret = [srv |-> NoResult, cli |-> NoResult]
    /\ pc = "ready"
    /\ calls = 0

\* the scalars GenerateKey is run with on the curve the server selects
EcdheServerDraws(cfg, clientHello) ==
    LET curveid == NextCandidate(1, cfg.curvePreferences, clientHello.supportedCurves)
    IN IF curveForCurveID(curveid).ok THEN CurveScalars(curveid) \cap {2, 5} ELSE {1}

PeerEcdheSrvGenerate ==
    /\ PeerMayCall("server", "ecdhe")
    /\ \E d \in EcdheServerDraws(config, hello) :
         LET r == ecdheGenerateServerKeyExchange(srv, config, cert, hello, d, 1)
         IN /\ srv' = r.ka
            /\ skx' = r.skx.key
            /\ ret' = [ret EXCEPT !.srv = Result("generateServerKeyExchange", NoBytes,
                                      r.err, NoBytes, r.skx.key, r.skx.digest, FALSE, FALSE)]
    /\ calls' = calls + 1
    /\ UNCHANGED <<config, hello, cert, cli, ckx, pc, role>>

PeerEcdheCliProcess ==
    /\ PeerMayCall("client", "ecdhe")
    /\ \E m \in PeerEcdheSkx(cli.auth, config, cert, hello) :
         LET r == ecdheProcessServerKeyExchange(cli, config, hello, cert, m)
         IN /\ cli' = r.ka
            /\ ret' = [ret EXCEPT !.cli = Result("processServerKeyExchange", m, r.err,
                                      NoBytes, NoBytes, r.digest, r.verifyCalled, r.checked)]
    /\ calls' = calls + 1
    /\ UNCHANGED <<config, hello, cert, srv, skx, ckx, pc, role>>

InitPeer == InitPeerDHE \/ InitPeerRSA \/ InitPeerECDHE

NextPeer ==
    \/ PeerDheSrvGenerate
    \/ PeerDheSrvProcess
    \/ PeerDheCliProcess
    \/ PeerDheCliGenerate
    \/ PeerRsaSrvGenerate
    \/ PeerRsaSrvProcess
    \/ PeerRsaCliProcess
    \/ PeerRsaCliGenerate
    \/ PeerEcdheSrvGenerate
    \/ PeerEcdheCliProcess

SpecPeer == InitPeer /\ [][NextPeer]_vars

(***************************************************************************)
(* Readers of wire messages, used to state the properties.                 *)
(***************************************************************************)
\* the length-prefixed field at the head of k: [ok, body, rest]
Field(k) ==
    IF Len(k) < 2 THEN [ok |-> FALSE, body |-> <<>>, rest |-> <<>>]
    ELSE IF Len(k) - 2 < ReadU16(k) THEN [ok |-> FALSE, body |-> <<>>, rest |-> <<>>]
    ELSE [ok |-> TRUE, body |-> SubSeq(k, 3, 2 + ReadU16(k)),
          rest |-> Slice(k, 2 + ReadU16(k))]

\* a DHE ServerKeyExchange read as (p, g, y, signed blob)
DhSkxFields(key) ==
    LET a == Field(key)
        b == Field(a.rest)
        c == Field(b.rest)
    IN [pOk |-> a.ok, gOk |-> a.ok /\ b.ok, yOk |-> a.ok /\ b.ok /\ c.ok,
        p |-> SetBytes(a.body), g |-> SetBytes(b.body), y |-> SetBytes(c.body),
        params |-> Prefix(key, Len(key) - Len(c.rest)), sig |-> c.rest]

\* a ClientKeyExchange holding exactly one length-prefixed field
CkxWellFramed(m) == Field(m).ok /\ Len(Field(m).rest) = 0

\* C2: a DH public value in {0, p, p+1} is rejected by both sides: the server's
\* processClientKeyExchange returns the invalid-ClientKeyExchange error and no
\* pre-master secret, the client's processServerKeyExchange returns the
\* invalid-ServerKeyExchange error without calling verifyParameters.
DhOutOfRangeRejected ==
    /\ (/\ role = [side |-> "server", family |-> "dhe"]
        /\ ret.srv.op = "processClientKeyExchange"
        /\ srv.p # Nil
        /\ CkxWellFramed(ret.srv.in)
        /\ SetBytes(Field(ret.srv.in).body) \in {0, srv.p, srv.p + 1})
       => (ret.srv.err = errClientKeyExchange /\ ret.srv.pms = NoBytes)
    /\ (/\ role = [side |-> "client", family |-> "dhe"]
        /\ ret.cli.op = "processServerKeyExchange"
        /\ DhSkxFields(ret.cli.in).yOk
        /\ DhSkxFields(ret.cli.in).y \in {0, DhSkxFields(ret.cli.in).p,
                                          DhSkxFields(ret.cli.in).p + 1})
       => (ret.cli.err = errServerKeyExchange /\ ~ret.cli.verifyCalled)

\* a server whose group is set has just refused the public value p + 1
DhOutOfRangeWitness ==
    /\ role = [side |-> "server", family |-> "dhe"]
    /\ ret.srv.op = "processClientKeyExchange"
    /\ srv.p = DHGroupP
    /\ ret.srv.in = LenPrefixed(DHGroupP + 1)
    /\ ret.srv.err = errClientKeyExchange

\* a client has just refused a signed ServerKeyExchange whose y equals its p
DhOutOfRangeClientWitness ==
    /\ role = [side |-> "client", family |-> "dhe"]
    /\ ret.cli.op = "processServerKeyExchange"
    /\ DhSkxFields(ret.cli.in).yOk
    /\ DhSkxFields(ret.cli.in).p = 23
    /\ DhSkxFields(ret.cli.in).y = 23
    /\ Len(DhSkxFields(ret.cli.in).sig) > 0
    /\ ret.cli.err = errServerKeyExchange

\* the g length field of a DHE ServerKeyExchange is cut short, or declares more
\* bytes than are left
GTruncated(key) == DhSkxFields(key).pOk /\ ~DhSkxFields(key).gOk

\* this step is a call of processServerKeyExchange on the DHE client
DheCliProcessStep ==
    /\ role = [side |-> "client", family |-> "dhe"]
    /\ calls' = calls + 1
    /\ ret'.cli.op = "processServerKeyExchange"

\* C3: processServerKeyExchange on a DHE message whose g length is truncated
\* returns the invalid-ServerKeyExchange error and leaves p, g, yTheirs, yServer
\* and verifyError as they were before the call.
DheTruncatedGNoMutation ==
    [][(DheCliProcessStep /\ GTruncated(ret'.cli.in))
           => /\ ret'.cli.err = errServerKeyExchange
              /\ cli'.p = cli.p
              /\ cli'.g = cli.g
              /\ cli'.yTheirs = cli.yTheirs
              /\ cli'.yServer = cli.yServer
              /\ cli'.verifyError = cli.verifyError]_vars

\* what the code does keep on such a message: the error is returned and every
\* field but p is left alone
DheTruncatedGKeepsAllButP ==
    [][(DheCliProcessStep /\ GTruncated(ret'.cli.in))
           => /\ ret'.cli.err = errServerKeyExchange
              /\ cli' = [cli EXCEPT !.p = DhSkxFields(ret'.cli.in).p]]_vars

\* C4: in every reachable state of a DHE client object, if yTheirs is set then
\* 0 < yTheirs < p.
DheYTheirsInRange ==
    (role = [side |-> "client", family |-> "dhe"] /\ cli.yTheirs # Nil)
        => (0 < cli.yTheirs /\ cli.yTheirs < cli.p)

(***************************************************************************)
(* Readers of ServerKeyExchange messages, written from the wire format,    *)
(* and the claims on processServerKeyExchange of the three key agreements. *)
(***************************************************************************)
\* an ephemeral RSA ServerKeyExchange read as (modulus, exponent, signed blob)
RsaSkxFields(key) ==
    LET a == Field(key)
        b == Field(a.rest)
    IN [ok |-> a.ok /\ b.ok /\ Len(b.body) <= 4,
        params |-> Prefix(key, Len(key) - Len(b.rest)), sig |-> b.rest]

\* an ECDHE ServerKeyExchange read as (named curve, point, signed blob)
EcdhSkxFields(key) ==
    IF Len(key) < 4 \/ Len(key) < 4 + key[4]
    THEN [ok |-> FALSE, params |-> <<>>, sig |-> <<>>]
    ELSE [ok |-> /\ key[1] = 3
                 /\ curveForCurveID(key[2] * 256 + key[3]).ok
                 /\ CurveUnmarshal(curveForCurveID(key[2] * 256 + key[3]).curve,
                                   SubSeq(key, 5, 4 + key[4])).ok,
          params |-> Prefix(key, 4 + key[4]), sig |-> Slice(key, 4 + key[4])]

\* the message the client was given parses as parameters of its key agreement
SkxParsed(key) ==
    CASE role.family = "rsa" ->
           [RsaSkxFields(key) EXCEPT !.ok = @ /\ cli.ephemeral]
      [] role.family = "dhe" ->
           [ok |-> /\ DhSkxFields(key).yOk
                   /\ 0 < DhSkxFields(key).y
                   /\ DhSkxFields(key).y < DhSkxFields(key).p,
            params |-> DhSkxFields(key).params, sig |-> DhSkxFields(key).sig]
      [] OTHER -> EcdhSkxFields(key)

\* C5: for ephemeral RSA, DHE and ECDHE, once processServerKeyExchange is past
\* parameter parsing the result of verifyParameters is stored in verifyError;
\* the call returns nil when InsecureSkipVerify is set, whatever verification
\* said, and returns the stored verifyError when it is not set.
VerifyErrorStoredNotThrown ==
    (/\ role.side = "client"
     /\ ret.cli.op = "processServerKeyExchange"
     /\ SkxParsed(ret.cli.in).ok)
    => /\ cli.verifyError = verifyParameters(cli.auth, config, hello, cert,
                                SkxParsed(ret.cli.in).params,
                                SkxParsed(ret.cli.in).sig).err
       /\ config.InsecureSkipVerify => ret.cli.err = ErrNil
       /\ ~config.InsecureSkipVerify => ret.cli.err = cli.verifyError

\* an ECDHE client that skips verification has returned nil on a message whose
\* signature did not verify, the failure kept in verifyError
VerifyErrorStoredWitness ==
    /\ role = [side |-> "client", family |-> "ecdhe"]
    /\ ret.cli.op = "processServerKeyExchange"
    /\ SkxParsed(ret.cli.in).ok
    /\ config.InsecureSkipVerify
    /\ cli.verifyError # ErrNil
    /\ ret.cli.err = ErrNil

\* the same on an ephemeral RSA client
VerifyErrorStoredRsaWitness ==
    /\ role = [side |-> "client", family |-> "rsa"]
    /\ ret.cli.op = "processServerKeyExchange"
    /\ SkxParsed(ret.cli.in).ok
    /\ config.InsecureSkipVerify
    /\ cli.verifyError # ErrNil
    /\ ret.cli.err = ErrNil

\* a DHE client that does verify has returned the failure it stored
VerifyErrorSurfacedWitness ==
    /\ role = [side |-> "client", family |-> "dhe"]
    /\ ret.cli.op = "processServerKeyExchange"
    /\ SkxParsed(ret.cli.in).ok
    /\ ~config.InsecureSkipVerify
    /\ cli.verifyError # ErrNil
    /\ ret.cli.err = cli.verifyError

(***************************************************************************)
(* Curve selection of the ECDHE server.                                    *)
(***************************************************************************)
\* the positions of the preference list whose curve the client also lists
CommonCurves(preferredCurves, supportedCurves) ==
    {i \in 1..Len(preferredCurves) :
        \E j \in 1..Len(supportedCurves) : supportedCurves[j] = preferredCurves[i]}

FirstCommonCurve(preferredCurves, supportedCurves) ==
    preferredCurves[CHOOSE i \in CommonCurves(preferredCurves, supportedCurves) :
                       \A j \in CommonCurves(preferredCurves, supportedCurves) : i <= j]

EcdheSrvGenerated ==
    /\ role = [side |-> "server", family |-> "ecdhe"]
    /\ ret.srv.op = "generateServerKeyExchange"

\* C7: the ECDHE generateServerKeyExchange stores as curveID the first curve of
\* config.curvePreferences() that appears anywhere in
\* clientHello.supportedCurves, and fails with the no-supported-curves error if
\* and only if the two lists have no identifier in common.
EcdheServerPreferenceWins ==
    EcdheSrvGenerated
    => /\ (ret.srv.err = errNoCurves)
            <=> (CommonCurves(config.curvePreferences, hello.supportedCurves) = {})
       /\ (CommonCurves(config.curvePreferences, hello.supportedCurves) # {})
            => srv.curveID = FirstCommonCurve(config.curvePreferences,
                                              hello.supportedCurves)

\* what the code does give: the claim with identifier 0, which the loop uses
\* for "nothing found", counted as no curve
EcdheServerPreferenceWinsNonZero ==
    (EcdheSrvGenerated /\ \A i \in 1..Len(config.curvePreferences) :
                              config.curvePreferences[i] # NoCurve)
    => /\ (ret.srv.err = errNoCurves)
            <=> (CommonCurves(config.curvePreferences, hello.supportedCurves) = {})
       /\ (CommonCurves(config.curvePreferences, hello.supportedCurves) # {})
            => srv.curveID = FirstCommonCurve(config.curvePreferences,
                                              hello.supportedCurves)

\* the server prefers <<0, P-256>>, the client lists both, and the call has
\* failed for want of a common curve
EcdheZeroCurveWitness ==
    /\ EcdheSrvGenerated
    /\ config.curvePreferences = <<NoCurve, CurveP256r1>>
    /\ hello.supportedCurves = <<CurveP256r1, NoCurve>>
    /\ ret.srv.err = errNoCurves

\* the client's order is the reverse of the server's and the server's wins
EcdheServerOrderWitness ==
    /\ EcdheSrvGenerated
    /\ config.curvePreferences = <<Curve25519, CurveP256r1>>
    /\ hello.supportedCurves = <<CurveP256r1, Curve25519>>
    /\ ret.srv.err = ErrNil
    /\ srv.curveID = Curve25519

(***************************************************************************)
(* Framing of the RSA ClientKeyExchange.                                   *)
(***************************************************************************)
\* the private key processClientKeyExchange decrypts with
RsaServerKey == IF srv.privateKey # NoKey THEN srv.privateKey ELSE cert.PrivateKey

\* what the decryption of ciphertext gives when the padding is good, whatever
\* the random fallback is
RsaPlaintext(ciphertext) ==
    DecryptPKCS1v15SessionKey(RsaServerKey, ciphertext, Fill(PreMasterSecretLen, -1))

RsaSrvProcessed ==
    /\ role = [side |-> "server", family |-> "rsa"]
    /\ ret.srv.op = "processClientKeyExchange"

\* C10: the RSA processClientKeyExchange returns the invalid-ClientKeyExchange
\* error on a message of fewer than 2 bytes and, when the version is not SSL
\* 3.0, on a message whose 16-bit big-endian prefix differs from the number of
\* bytes after it; for SSL 3.0 a message of 2 bytes or more never meets that
\* error and is decrypted whole.
RsaCkxFraming ==
    RsaSrvProcessed
    => /\ Len(ret.srv.in) < 2 => ret.srv.err = errClientKeyExchange
       /\ (/\ srv.version # VersionSSL30
           /\ Len(ret.srv.in) >= 2
           /\ ret.srv.in[1] * 256 + ret.srv.in[2] # Len(ret.srv.in) - 2)
          => ret.srv.err = errClientKeyExchange
       /\ (srv.version = VersionSSL30 /\ Len(ret.srv.in) >= 2)
          => /\ ret.srv.err = RsaPlaintext(ret.srv.in).err
             /\ (/\ ret.srv.err = ErrNil
                 /\ RsaPlaintext(ret.srv.in).key # Fill(PreMasterSecretLen, -1))
                => ret.srv.pms = RsaPlaintext(ret.srv.in).key

\* a TLS 1.0 server has refused a ciphertext whose prefix is one short
RsaCkxFramingWitness ==
    /\ RsaSrvProcessed
    /\ srv.version = VersionTLS10
    /\ Len(ret.srv.in) > 2
    /\ ret.srv.in[1] * 256 + ret.srv.in[2] = Len(ret.srv.in) - 3
    /\ ret.srv.err = errClientKeyExchange

\* an SSL 3.0 server has decrypted a ciphertext that came without a prefix
RsaCkxSsl30Witness ==
    /\ RsaSrvProcessed
    /\ srv.version = VersionSSL30
    /\ ret.srv.in = EncryptPKCS1v15(RsaServerKey, PeerPms, 5).c
    /\ ret.srv.err = ErrNil
    /\ ret.srv.pms = PeerPms

\* a one-byte message is refused by an SSL 3.0 server as well
RsaCkxShortWitness ==
    /\ RsaSrvProcessed
    /\ srv.version = VersionSSL30
    /\ Len(ret.srv.in) = 1
    /\ ret.srv.err = errClientKeyExchange

(***************************************************************************)
(* SpecPick: pickTLS12HashForSignature applied to a signature type, the    *)
(* list of a ClientHello and the list of a server configuration.           *)
(***************************************************************************)
PickPairs ==
    {SigAndHash(hashSHA1, signatureRSA), SigAndHash(hashSHA256, signatureRSA),
     SigAndHash(hashSHA384, signatureRSA), SigAndHash(hashSHA256, signatureECDSA)}

SigTypes == {signatureRSA, signatureDSA, signatureECDSA}

InitPick ==
    /\ \E serverList \in SeqsUpTo(PickPairs, MaxListLen) :
         config = Config("", FALSE, serverList, <<>>, <<>>)
    /\ \E clientList \in SeqsUpTo(PickPairs, MaxListLen) :
         hello = Hello(VersionTLS12, clientList, <<>>)
    /\ cert = [PrivateKey |-> RsaKeyA, PublicKey |-> RsaKeyA]
    /\ \E sigType \in SigTypes :
         /\ srv = SignedAuth(VersionTLS12, sigType)
         /\ cli = SignedAuth(VersionTLS12, sigType)
    /\ role = [side |-> "server", family |-> "pick"]
    /\ skx = NoBytes
    /\ ckx = NoBytes
    /\ ret = [srv |-> NoResult, cli |-> NoResult]
    /\ pc = "ready"
    /\ calls = 0

PickHash ==
    /\ role.family = "pick"
    /\ pc = "ready"
    /\ LET r == pickTLS12HashForSignature(srv.sigType, hello.signatureAndHashes,
                                          config.signatureAndHashesForServer)
       IN ret' = [ret EXCEPT !.srv = Result("pickTLS12HashForSignature", NoBytes, r.err,
                                        NoBytes, <<r.hash>>, NoBytes, FALSE, FALSE)]
    /\ pc' = "done"
    /\ calls' = calls + 1
    /\ UNCHANGED <<config, hello, cert, srv, cli, skx, ckx, role>>

NextPick == PickHash

SpecPick == InitPick /\ [][NextPick]_vars

\* the positions of clientList whose signature is sigType and whose pair is in
\* serverList
EligiblePairs(sigType, clientList, serverList) ==
    {i \in 1..Len(clientList) :
        /\ clientList[i].signature = sigType
        /\ \E j \in 1..Len(serverList) :
              /\ serverList[j].hash = clientList[i].hash
              /\ serverList[j].signature = clientList[i].signature}

Picked == role.family = "pick" /\ ret.srv.op = "pickTLS12HashForSignature"

\* C6: pickTLS12HashForSignature returns SHA-1 when clientList is empty;
\* otherwise the hash of the first entry of clientList whose signature is
\* sigType and whose pair is in serverList; it fails with the no-common-hash
\* error exactly when clientList is not empty and has no such entry.
PickFirstClientPreferred ==
    Picked =>
      LET clientList == hello.signatureAndHashes
          eligible == EligiblePairs(srv.sigType, hello.signatureAndHashes,
                                    config.signatureAndHashesForServer)
      IN /\ (clientList = <<>>) => (ret.srv.err = ErrNil /\ ret.srv.out = <<hashSHA1>>)
         /\ (clientList # <<>> /\ eligible # {})
              => /\ ret.srv.err = ErrNil
                 /\ ret.srv.out = <<clientList[CHOOSE i \in eligible :
                                                  \A j \in eligible : i <= j].hash>>
         /\ (ret.srv.err = errNoCommonHash) <=> (clientList # <<>> /\ eligible = {})
         /\ ret.srv.err \in {ErrNil, errNoCommonHash}

\* the example: client [(RSA,SHA1),(RSA,SHA256)], server [(RSA,SHA256),(RSA,SHA384)]
\* and sigType RSA have given SHA-256
PickExampleWitness ==
    /\ Picked
    /\ srv.sigType = signatureRSA
    /\ hello.signatureAndHashes = <<SigAndHash(hashSHA1, signatureRSA),
                                    SigAndHash(hashSHA256, signatureRSA)>>
    /\ config.signatureAndHashesForServer = <<SigAndHash(hashSHA256, signatureRSA),
                                              SigAndHash(hashSHA384, signatureRSA)>>
    /\ ret.srv.err = ErrNil
    /\ ret.srv.out = <<hashSHA256>>

\* a client list that is not empty has no pair in common and the call has failed
PickNoCommonWitness ==
    /\ Picked
    /\ Len(hello.signatureAndHashes) = 2
    /\ ret.srv.err = errNoCommonHash

\* an empty client list has given SHA-1 though the server list has no SHA-1
PickEmptyWitness ==
    /\ Picked
    /\ hello.signatureAndHashes = <<>>
    /\ config.signatureAndHashesForServer = <<SigAndHash(hashSHA384, signatureRSA)>>
    /\ ret.srv.out = <<hashSHA1>>

(***************************************************************************)
(* SpecAuth: a signedKeyAgreement of the server signs parameters, one of   *)
(* the client verifies what the server signed or what a peer sent.  skx is *)
(* params followed by the signed blob, ret.cli.in the blob verified.       *)
(***************************************************************************)
AuthVersions == {VersionSSL30, VersionTLS10, VersionTLS11, VersionTLS12}

\* the certificates: the private key the server signs with and the public key
\* the client read from the certificate
AuthCerts ==
    {[PrivateKey |-> RsaKeyA, PublicKey |-> RsaKeyA],
     [PrivateKey |-> RsaKeyA, PublicKey |-> RsaKeyB],
     [PrivateKey |-> EcdsaPrivateKey(3), PublicKey |-> EcdsaPublicKey(3)],
     [PrivateKey |-> EcdsaPrivateKey(3), PublicKey |-> EcdsaPublicKey(4)],
     [PrivateKey |-> RsaKeyA, PublicKey |-> DsaPublicKey(3)],
     [PrivateKey |-> EcdsaPrivateKey(3), PublicKey |-> RsaKeyA]}

AuthPairs == {SigAndHash(hashSHA256, signatureRSA), SigAndHash(hashSHA1, signatureECDSA)}

AuthServerList ==
    <<SigAndHash(hashSHA256, signatureRSA), SigAndHash(hashSHA1, signatureRSA),
      SigAndHash(hashSHA256, signatureECDSA), SigAndHash(hashSHA1, signatureECDSA)>>

\* the allow-lists of the client; 9 names no hash function
AuthClientLists ==
    {<<>>, <<SigAndHash(hashSHA256, signatureRSA)>>,
     <<SigAndHash(hashSHA1, signatureRSA), SigAndHash(hashSHA1, signatureECDSA)>>,
     <<SigAndHash(hashSHA256, signatureRSA), SigAndHash(hashSHA1, signatureECDSA),
       SigAndHash(9, signatureRSA)>>}

\* the parameters signed
AuthParams == {<<0, 1, 23>>, <<3, 0, 23, 1, 9>>}

InitAuth ==
    /\ \E clientList \in AuthClientLists :
         config = Config("", FALSE, AuthServerList, clientList, <<>>)
    /\ \E offered \in SeqsUpTo(AuthPairs, MaxListLen) :
         hello = Hello(VersionTLS12, offered, <<>>)
    /\ cert \in AuthCerts
    /\ \E version \in AuthVersions, sigType \in SigTypes :
         /\ srv = SignedAuth(version, sigType)
         /\ cli = SignedAuth(version, sigType)
    /\ role = [side |-> "both", family |-> "auth"]
    /\ skx = NoBytes
    /\ ckx = NoBytes
    /\ ret = [srv |-> NoResult, cli |-> NoResult]
    /\ pc = "ready"
    /\ calls = 0

\* the nonces config.rand() can give ecdsa.Sign for these parameters
AuthNonces(params) ==
    LET s == signParameters(srv, config, cert, hello, params, 1)
    IN IF srv.sigType = signatureECDSA /\ s.err = ErrNil
       THEN SignNonces(cert.PrivateKey, s.skx.digest) \cap {1, 4, 7, 10}
       ELSE {1}

AuthSign ==
    /\ role.family = "auth"
    /\ pc = "ready"
    /\ \E params \in AuthParams :
       \E k \in AuthNonces(params) :
         LET r == signParameters(srv, config, cert, hello, params, k)
         IN /\ srv' = r.auth
            /\ skx' = r.skx.key
            /\ ret' = [ret EXCEPT !.srv = Result("signParameters", params, r.err, NoBytes,
                                      r.skx.key, r.skx.digest, FALSE, FALSE)]
            /\ pc' = IF r.err = ErrNil THEN "signed" ELSE "done"
    /\ calls' = calls + 1
    /\ UNCHANGED <<config, hello, cert, cli, ckx, role>>

\* the client verifies the message the server built
AuthVerifySigned ==
    /\ role.family = "auth"
    /\ pc = "signed"
    /\ LET params == ret.srv.in
           sig == Slice(skx, Len(params))
           r == verifyParameters(cli, config, hello, cert, params, sig)
       IN /\ cli' = r.auth
          /\ ret' = [ret EXCEPT !.cli = Result("verifyParameters", sig, r.err, NoBytes,
                                    NoBytes, r.digest, TRUE, r.checked)]
    /\ pc' = "done"
    /\ calls' = calls + 1
    /\ UNCHANGED <<config, hello, cert, srv, skx, ckx, role>>

\* the blobs a peer sends for params
AuthBlobs(params) ==
    PeerBlobs(srv, config, cert, hello, params)
    \cup {<<5>>, <<0, 0>>, <<0, 2, 9>>,
          <<hashSHA256, signatureRSA>>, <<hashSHA256, signatureRSA, 0>>,
          <<hashSHA256, signatureRSA, 0, 2, 9>>, <<hashSHA256, signatureRSA, 0, 1, 9>>,
          <<hashSHA1, signatureECDSA, 0, 1, 9>>, <<hashSHA1, signatureECDSA, 0, 0>>,
          <<9, signatureRSA, 0, 1, 9>>, <<hashSHA1, signatureDSA, 0, 1, 9, 9>>}

\* the client verifies a message a peer built
AuthVerifyPeer ==
    /\ role.family = "auth"
    /\ pc = "ready"
    /\ \E params \in AuthParams :
       \E sig \in AuthBlobs(params) :
         LET r == verifyParameters(cli, config, hello, cert, params, sig)
         IN /\ cli' = r.auth
            /\ skx' = params \o sig
            /\ ret' = [ret EXCEPT !.cli = Result("verifyParameters", sig, r.err, NoBytes,
                                      NoBytes, r.digest, TRUE, r.checked)]
    /\ pc' = "done"
    /\ calls' = calls + 1
    /\ UNCHANGED <<config, hello, cert, srv, ckx, role>>

NextAuth ==
    \/ AuthSign
    \/ AuthVerifySigned
    \/ AuthVerifyPeer

SpecAuth == InitAuth /\ [][NextAuth]_vars

\* the certificate's public key is the one of the private key
KeysMatch ==
    \/ cert.PrivateKey.type = "rsa" /\ cert.PublicKey = cert.PrivateKey
    \/ /\ cert.PrivateKey.type = "ecdsa"
       /\ cert.PublicKey = EcdsaPublicKey(cert.PrivateKey.D)

\* the pair (hash, signature) is in list
PairListed(hash, signature, list) ==
    \E i \in 1..Len(list) : list[i].hash = hash /\ list[i].signature = signature

\* the client has verified the message signParameters built
VerifiedSigned ==
    /\ role.family = "auth"
    /\ ret.srv.op = "signParameters"
    /\ ret.srv.err = ErrNil
    /\ ret.cli.op = "verifyParameters"
    /\ skx = ret.srv.out
    /\ skx = ret.srv.in \o ret.cli.in

\* C8: verifyParameters is the inverse of signParameters: for sigType RSA or
\* ECDSA and every version from SSL 3.0 to TLS 1.2, verifying the params and
\* blob signParameters produced, with the same randoms, version and sigType,
\* the matching public key and, at TLS 1.2, the chosen pair in the client's
\* allow-list, succeeds, returns the digest of skx.digest and sets valid.
VerifyInvertsSign ==
    (/\ VerifiedSigned
     /\ srv.sigType \in {signatureRSA, signatureECDSA}
     /\ KeysMatch
     /\ (srv.version >= VersionTLS12)
          => PairListed(srv.sh.hash, srv.sh.signature, config.signatureAndHashesForClient))
    => /\ ret.cli.err = ErrNil
       /\ ret.cli.digest = ret.srv.digest
       /\ ret.cli.digest # NoBytes
       /\ cli.valid

\* an ECDSA signature made at TLS 1.2 has verified
VerifyInvertsSignWitness ==
    /\ VerifiedSigned
    /\ srv.sigType = signatureECDSA
    /\ srv.version = VersionTLS12
    /\ KeysMatch
    /\ ret.cli.err = ErrNil
    /\ ret.cli.digest = ret.srv.digest
    /\ cli.valid

\* an RSA signature made at SSL 3.0 has verified
VerifyInvertsSignRsaWitness ==
    /\ VerifiedSigned
    /\ srv.sigType = signatureRSA
    /\ srv.version = VersionSSL30
    /\ KeysMatch
    /\ ret.cli.err = ErrNil
    /\ cli.valid

\* the same message does not verify under another key
VerifyOtherKeyWitness ==
    /\ VerifiedSigned
    /\ ~KeysMatch
    /\ ret.cli.checked
    /\ ret.cli.err # ErrNil

AuthVerified == role.family = "auth" /\ ret.cli.op = "verifyParameters"

\* the bytes of the blob after the (hash, signature) pair of TLS 1.2
AfterPair(sig) == IF cli.version >= VersionTLS12 THEN Slice(sig, 2) ELSE sig

\* C9: verifyParameters returns an error, with no signature verification
\* attempted, when at TLS 1.2 the sigId byte is not the expected sigType or the
\* pair (hashId, sigType) is not in config.signatureAndHashesForClient(), and
\* at any version when fewer than 2 bytes are there for sigLen or sigLen is not
\* the number of bytes after it.
VerifyRejectsBeforeChecking ==
    (/\ AuthVerified
     /\ \/ /\ cli.version >= VersionTLS12
           /\ Len(ret.cli.in) >= 2
           /\ \/ ret.cli.in[2] # cli.sigType
              \/ ~PairListed(ret.cli.in[1], cli.sigType,
                             config.signatureAndHashesForClient)
        \/ Len(AfterPair(ret.cli.in)) < 2
        \/ /\ Len(AfterPair(ret.cli.in)) >= 2
           /\ AfterPair(ret.cli.in)[1] * 256 + AfterPair(ret.cli.in)[2]
                  # Len(AfterPair(ret.cli.in)) - 2)
    => (ret.cli.err # ErrNil /\ ~ret.cli.checked /\ ret.cli.digest = NoBytes)

\* a TLS 1.2 client has refused a blob whose pair is well formed but not in its
\* allow-list
VerifyRejectsWitness ==
    /\ AuthVerified
    /\ cli.version = VersionTLS12
    /\ Len(ret.cli.in) > 4
    /\ ret.cli.in[2] = cli.sigType
    /\ ~PairListed(ret.cli.in[1], cli.sigType, config.signatureAndHashesForClient)
    /\ ret.cli.in[3] * 256 + ret.cli.in[4] = Len(ret.cli.in) - 4
    /\ ret.cli.err = errUnsupportedHash
    /\ ~ret.cli.checked

\* a TLS 1.0 client has refused a blob whose sigLen is not what follows it
VerifyRejectsLengthWitness ==
    /\ AuthVerified
    /\ cli.version = VersionTLS10
    /\ ret.cli.in = <<0, 3, 9>>
    /\ ret.cli.err = errServerKeyExchange
    /\ ~ret.cli.checked

\* a TLS 1.2 client has refused a blob of a foreign signature type
VerifyRejectsSigIdWitness ==
    /\ AuthVerified
    /\ cli.version = VersionTLS12
    /\ cli.sigType = signatureRSA
    /\ ret.cli.in = <<hashSHA1, signatureECDSA, 0, 1, 9>>
    /\ ret.cli.err = errServerKeyExchange
    /\ ~ret.cli.checked

\* a well-framed blob does reach the signature check
VerifyCheckedWitness ==
    /\ AuthVerified
    /\ skx # ret.srv.out
    /\ ret.cli.checked
    /\ ret.cli.err # ErrNil

(***************************************************************************)
(* The RSA pre-master secret whatever the padding.                         *)
(***************************************************************************)
\* a ClientKeyExchange that passes the framing tests of processClientKeyExchange
RsaCkxWellFramed ==
    /\ Len(ret.srv.in) >= 2
    /\ srv.version # VersionSSL30 => ReadU16(ret.srv.in) = Len(ret.srv.in) - 2

\* the ciphertext processClientKeyExchange takes from the message
RsaCkxCiphertext ==
    IF srv.version # VersionSSL30 THEN Slice(ret.srv.in, 2) ELSE ret.srv.in

\* the padding of the ciphertext was good and the plaintext 48 bytes long
RsaCkxDecrypts ==
    /\ RsaPlaintext(RsaCkxCiphertext).err = ErrNil
    /\ RsaPlaintext(RsaCkxCiphertext).key # Fill(PreMasterSecretLen, -1)

\* what the call gives when it gives a secret: 48 bytes, the plaintext when the
\* padding is good and two zero bytes and the 46 bytes read from the random
\* source when it is not
RsaCkxSecret ==
    /\ ret.srv.err = ErrNil
    /\ Len(ret.srv.pms) = PreMasterSecretLen
    /\ RsaCkxDecrypts => ret.srv.pms = RsaPlaintext(RsaCkxCiphertext).key
    /\ ~RsaCkxDecrypts => ret.srv.pms = <<0, 0>> \o ret.srv.rnd

RsaCkxVersionUncheckedWitness ==
    /\ RsaSrvProcessed
    /\ RsaCkxWellFramed
    /\ srv.version = VersionTLS12
    /\ RsaCkxDecrypts
    /\ ret.srv.err = ErrNil
    /\ ret.srv.pms = PeerPms
    /\ Prefix(ret.srv.pms, 2) = U16(VersionTLS10)

\* a well-framed ciphertext one byte longer than the modulus has met the
\* decryption error
RsaCkxOversizeWitness ==
    /\ RsaSrvProcessed
    /\ RsaCkxWellFramed
    /\ Len(StripZeros(RsaCkxCiphertext)) = RsaSize(RsaServerKey) + 1
    /\ ret.srv.err = "crypto/rsa: decryption error"
    /\ ret.srv.pms = NoBytes

(***************************************************************************)
(* SpecRSA: one export-RSA handshake between an honest server and an       *)
(* honest client of the same negotiated version, driven in the order       *)
(* generateServerKeyExchange, processServerKeyExchange,                    *)
(* generateClientKeyExchange, processClientKeyExchange; the driver stops   *)
(* at the first error.                                                     *)
(***************************************************************************)
\* the versions a client advertises in its hello
RsaHelloVersions == {VersionTLS10, VersionTLS12}

\* the padding bytes EncryptPKCS1v15 draws
RsaPaddings == {5, 77}

InitRSA ==
    /\ \E t \in DheTrust, export \in {NoKey, RsaKeyB} :
         /\ config = [Config("", t[2], DefaultSigAndHashes, DefaultSigAndHashes, <<>>)
                         EXCEPT !.ExportRSAKey = export]
         /\ cert = [PrivateKey |-> RsaKeyA, PublicKey |-> t[1]]
    /\ \E vers \in RsaHelloVersions : hello = Hello(vers, DefaultSigAndHashes, <<>>)
    /\ \E version \in RsaVersions :
         \E auth \in {NilAuth, SignedAuth(version, signatureRSA)} :
            /\ srv = NewRsaKeyAgreement(auth, version, TRUE)
            /\ cli = NewRsaKeyAgreement(auth, version, TRUE)
    /\ skx = NoBytes
    /\ ckx = NoBytes
    /\ ret = [srv |-> NoResult, cli |-> NoResult]
    /\ pc = "start"
    /\ calls = 0
    /\ role = [side |-> "both", family |-> "rsa"]

RsaSrvGenerate ==
    /\ pc = "start"
    /\ \E genKey \in RsaGeneratedKeys :
         LET r == rsaGenerateServerKeyExchange(srv, config, cert, hello, genKey, 1)
         IN /\ srv' = r.ka
            /\ skx' = r.skx.key
            /\ ret' = [ret EXCEPT !.srv = Result("generateServerKeyExchange", NoBytes,
                                      r.err, NoBytes, r.skx.key, r.skx.digest, FALSE, FALSE)]
            /\ pc' = IF r.err = ErrNil THEN "skxSent" ELSE "aborted"
    /\ calls' = calls + 1
    /\ UNCHANGED <<config, hello, cert, cli, ckx, role>>

RsaCliProcess ==
    /\ pc = "skxSent"
    /\ LET r == rsaProcessServerKeyExchange(cli, config, hello, cert, skx)
       IN /\ cli' = r.ka
          /\ ret' = [ret EXCEPT !.cli = Result("processServerKeyExchange", skx, r.err,
                                    NoBytes, NoBytes, r.digest, r.verifyCalled, r.checked)]
          /\ pc' = IF r.err = ErrNil THEN "skxDone" ELSE "aborted"
    /\ calls' = calls + 1
    /\ UNCHANGED <<config, hello, cert, srv, skx, ckx, role>>

RsaCliGenerate ==
    /\ pc = "skxDone"
    /\ \E rnd \in RandomFills, pad \in RsaPaddings :
         LET r == rsaGenerateClientKeyExchange(cli, hello, cert, rnd, pad)
         IN /\ cli' = r.ka
            /\ ckx' = r.ckx
            /\ ret' = [ret EXCEPT !.cli = Result("generateClientKeyExchange", NoBytes,
                                      r.err, r.pms, r.ckx, NoBytes, FALSE, FALSE)]
            /\ pc' = IF r.err = ErrNil THEN "ckxSent" ELSE "aborted"
    /\ calls' = calls + 1
    /\ UNCHANGED <<config, hello, cert, srv, skx, role>>

RsaSrvProcess ==
    /\ pc = "ckxSent"
    /\ \E rnd \in RandomFills :
         LET r == rsaProcessClientKeyExchange(srv, cert, ckx, rnd)
         IN /\ srv' = r.ka
            /\ ret' = [ret EXCEPT !.srv = Result("processClientKeyExchange", ckx, r.err,
                                      r.pms, NoBytes, NoBytes, FALSE, FALSE)]
            /\ pc' = "done"
    /\ calls' = calls + 1
    /\ UNCHANGED <<config, hello, cert, cli, skx, ckx, role>>

NextRSA == RsaSrvGenerate \/ RsaCliProcess \/ RsaCliGenerate \/ RsaSrvProcess

SpecRSA == InitRSA /\ [][NextRSA]_vars

\* the ciphertext inside the ClientKeyExchange the client sent
RsaSentCiphertext == IF cli.version # VersionSSL30 THEN Slice(ckx, 2) ELSE ckx

\* C12: in an export-RSA handshake run in the order generateServerKeyExchange,
\* processServerKeyExchange, generateClientKeyExchange, processClientKeyExchange
\* with the same negotiated version on both sides, the client encrypts to the
\* ephemeral key it parsed, which is the server's ephemeral key, the server
\* decrypts with its ephemeral private key, both sides return the same 48-byte
\* pre-master secret, and its first two bytes are the big-endian clientHello.vers.
RsaExportSharedSecret ==
    (pc = "done" /\ role = [side |-> "both", family |-> "rsa"]) =>
        /\ srv.privateKey \in (IF config.ExportRSAKey # NoKey
                               THEN {config.ExportRSAKey} ELSE RsaGeneratedKeys)
        /\ cli.publicKey = srv.privateKey
        /\ \E pad \in RsaPaddings :
             RsaSentCiphertext = EncryptPKCS1v15(cli.publicKey, ret.cli.pms, pad).c
        /\ ret.srv.err = ErrNil
        /\ ret.srv.pms = RsaPlaintext(RsaSentCiphertext).key
        /\ ret.srv.pms = ret.cli.pms
        /\ Len(ret.cli.pms) = PreMasterSecretLen
        /\ Prefix(ret.cli.pms, 2) = U16(hello.vers)

\* a completed TLS 1.0 handshake of a client that advertised TLS 1.2, under a
\* certificate key that is not the ephemeral key
RsaExportWitness ==
    /\ pc = "done"
    /\ role = [side |-> "both", family |-> "rsa"]
    /\ srv.version = VersionTLS10
    /\ hello.vers = VersionTLS12
    /\ cert.PublicKey # cli.publicKey
    /\ ret.srv.err = ErrNil
    /\ ret.srv.pms = ret.cli.pms
    /\ Prefix(ret.srv.pms, 2) = U16(VersionTLS12)

(***************************************************************************)
(* SpecKex: one ECDHE client object against an arbitrary server, under the *)
(* KexConfig strings of the research payloads.  The driver calls           *)
(* processServerKeyExchange and generateClientKeyExchange in any order, at *)
(* most MaxCalls times; a panic ends the run.                              *)
(***************************************************************************)
EcdheKexConfigs ==
    StaticPayloadOptions
    \cup {"", "COMPRESS", "COMPRESS,", "COMPRESS,256_ECP_INVALID_S5",
          "224_ECP_TWIST_S11,COMPRESS", "256_ECP_INVALID_S5,X25519_INVALID_S2",
          "X25519_INVALID_S4,unknown", "unknown", "g3"}

InitKex ==
    /\ \E kex \in EcdheKexConfigs, skip \in BOOLEAN :
         config = Config(kex, skip, DefaultSigAndHashes, DefaultSigAndHashes, <<>>)
    /\ cert = [PrivateKey |-> RsaKeyA, PublicKey |-> RsaKeyA]
    /\ hello = Hello(VersionTLS12, DefaultSigAndHashes, <<>>)
    /\ \E auth \in {NilAuth, SignedAuth(VersionTLS12, signatureRSA)} :
         /\ srv = NewEcdheKeyAgreement(auth)
         /\ cli = NewEcdheKeyAgreement(auth)
    /\ role = [side |-> "client", family |-> "ecdhe"]
    /\ skx = NoBytes
    /\ ckx = NoBytes
    /\ ret = [srv |-> NoResult, cli |-> NoResult]
    /\ pc = "ready"
    /\ calls = 0

\* the scalars GenerateKey is run with on the client's curve
EcdheClientDraws(ka) ==
    IF ka.curve = NoCurve THEN {1} ELSE CurveScalars(ka.curve) \cap {3, 7}

PeerEcdheCliGenerate ==
    /\ PeerMayCall("client", "ecdhe")
    /\ \E d \in EcdheClientDraws(cli), onNil \in NilKeyOutcomes :
         LET r == ecdheGenerateClientKeyExchange(cli, config, d, onNil)
         IN /\ cli' = r.ka
            /\ ckx' = r.ckx
            /\ ret' = [ret EXCEPT !.cli = Result("generateClientKeyExchange", NoBytes,
                                      r.err, r.pms, r.ckx, NoBytes, FALSE, FALSE)]
            /\ pc' = IF r.err = Panic THEN "crashed" ELSE pc
    /\ calls' = calls + 1
    /\ UNCHANGED <<config, hello, cert, srv, skx, role>>

NextKex == PeerEcdheCliProcess \/ PeerEcdheCliGenerate

SpecKex == InitKex /\ [][NextKex]_vars

(***************************************************************************)
(* The static payloads of the ECDHE generateClientKeyExchange.             *)
(***************************************************************************)
\* a step in which generateClientKeyExchange is called on an ECDHE client whose
\* last call was a processServerKeyExchange that returned no error
EcdheCliGenerateAfterSkx ==
    /\ role = [side |-> "client", family |-> "ecdhe"]
    /\ ret.cli.op = "processServerKeyExchange"
    /\ ret.cli.err = ErrNil
    /\ ret'.cli.op = "generateClientKeyExchange"

\* the client sent the point X = 0 on X25519
EcdheSentZeroPoint ==
    /\ ret'.cli.err = ErrNil
    /\ cli'.curveID = Curve25519
    /\ cli'.curve = Curve25519
    /\ cli'.clientPublicKey.X = 0
    /\ ckx' = ClientKeyExchangeBytes(CurveMarshal(Curve25519, [X |-> 0, Y |-> Nil], FALSE))

\* C13 as stated: with KexConfig = "X25519_INVALID_S2", after a successful
\* processServerKeyExchange, generateClientKeyExchange sends the point X = 0 on
\* X25519 and returns the one-byte pre-master secret {0x00}.
EcdheZeroPointSecretOneByte ==
    [][(EcdheCliGenerateAfterSkx /\ config.KexConfig = "X25519_INVALID_S2")
       => (EcdheSentZeroPoint /\ ret'.cli.pms = <<0>>)]_vars

\* C13: with KexConfig = "X25519_INVALID_S2", after a successful
\* processServerKeyExchange, generateClientKeyExchange sends the point X = 0 on
\* X25519 and returns the empty pre-master secret, the big-endian bytes of zero.
EcdheZeroPointSecretEmpty ==
    [][(EcdheCliGenerateAfterSkx /\ config.KexConfig = "X25519_INVALID_S2")
       => (EcdheSentZeroPoint /\ ret'.cli.pms = <<>>)]_vars

\* a client whose server selected P-256 has sent X = 0 on X25519 and returned a
\* secret of no bytes
EcdheZeroPointWitness ==
    /\ role = [side |-> "client", family |-> "ecdhe"]
    /\ config.KexConfig = "X25519_INVALID_S2"
    /\ ret.cli.op = "generateClientKeyExchange"
    /\ ret.cli.err = ErrNil
    /\ cli.serverPublicKey # NoPoint
    /\ cli.serverPublicKey.Y # Nil
    /\ cli.curve = Curve25519
    /\ cli.clientPublicKey.X = 0
    /\ ret.cli.out = <<1, 0>>
    /\ Len(ret.cli.pms) = 0

\* a step in which generateClientKeyExchange is called on an ECDHE client
EcdheCliGenerateStep ==
    /\ role = [side |-> "client", family |-> "ecdhe"]
    /\ calls' = calls + 1
    /\ ret'.cli.op = "generateClientKeyExchange"

\* the positions of the static-payload options in the KexConfig list
StaticPositions(kexConfig) ==
    {i \in 1..Len(KexConfigOptions(kexConfig)) :
        KexConfigOptions(kexConfig)[i] \in StaticPayloadOptions}

\* the tokens of the list that are neither options nor empty
UnknownOptions(kexConfig) ==
    {i \in 1..Len(KexConfigOptions(kexConfig)) :
        KexConfigOptions(kexConfig)[i] \notin StaticPayloadOptions \cup {"COMPRESS", ""}}

\* the payload of the last static-payload option of the list
LastPayload(kexConfig) ==
    LET last == CHOOSE i \in StaticPositions(kexConfig) :
                    \A j \in StaticPositions(kexConfig) : j <= i
    IN StaticPayload(KexConfigOptions(kexConfig)[last])

\* C14: whenever the KexConfig list of an ECDHE client contains a static-payload
\* option, generateClientKeyExchange generates no key pair and performs no ECDH:
\* privateKey is nil afterwards, and a call that finds a curve set and every
\* option known returns no error, stores as clientPublicKey the payload point,
\* forces the payload's curve whatever curve the server selected, and returns
\* the big-endian bytes of the payload's X, whatever the random source gives and
\* whatever the server's public key is.
EcdheStaticPayloadNoEcdh ==
    [][(EcdheCliGenerateStep /\ StaticPositions(config.KexConfig) # {})
       => LET p == LastPayload(config.KexConfig)
          IN /\ cli'.privateKey = Nil
             /\ (cli.curve # NoCurve /\ UnknownOptions(config.KexConfig) = {})
                => /\ ret'.cli.err = ErrNil
                   /\ cli'.clientPublicKey.X = p.mx
                   /\ (p.my # Nil \/ Cardinality(StaticPositions(config.KexConfig)) = 1)
                      => cli'.clientPublicKey.Y = p.my
                   /\ cli'.curveID = p.curveID
                   /\ cli'.curve = p.curveID
                   /\ ret'.cli.pms = Bytes(p.mx)
                   /\ ckx' = ClientKeyExchangeBytes(
                                 CurveMarshal(p.curveID, cli'.clientPublicKey,
                                     \E i \in 1..Len(KexConfigOptions(config.KexConfig)) :
                                        KexConfigOptions(config.KexConfig)[i] = "COMPRESS"))
             /\ ret'.cli.err = ErrNil
                => (cli.curve # NoCurve /\ UnknownOptions(config.KexConfig) = {})]_vars

\* a client whose server sent an X25519 point has sent the compressed P-224
\* twist payload and returned its X as the secret
EcdheStaticPayloadWitness ==
    /\ role = [side |-> "client", family |-> "ecdhe"]
    /\ config.KexConfig = "224_ECP_TWIST_S11,COMPRESS"
    /\ ret.cli.op = "generateClientKeyExchange"
    /\ ret.cli.err = ErrNil
    /\ cli.serverPublicKey # NoPoint
    /\ cli.serverPublicKey.Y = Nil
    /\ cli.curve = CurveP224r1
    /\ cli.privateKey = Nil
    /\ cli.clientPublicKey = [X |-> 11, Y |-> 3]
    /\ ret.cli.out = <<2, 3, 11>>
    /\ ret.cli.pms = <<11>>

\* a client whose ServerKeyExchange carried an undecodable point has still sent
\* a payload: the server's public key is not looked at
EcdheStaticPayloadNoServerKeyWitness ==
    /\ role = [side |-> "client", family |-> "ecdhe"]
    /\ StaticPositions(config.KexConfig) # {}
    /\ ret.cli.op = "generateClientKeyExchange"
    /\ ret.cli.err = ErrNil
    /\ cli.serverPublicKey = NoPoint

(***************************************************************************)
(* Unknown KexConfig tokens.                                               *)
(***************************************************************************)
DheCliGenerated ==
    /\ role = [side |-> "client", family |-> "dhe"]
    /\ ret.cli.op = "generateClientKeyExchange"

\* the call failed: an error or a panic, no message and no secret
CliGenerateFailed ==
    /\ ret.cli.err # ErrNil
    /\ ret.cli.out = NoBytes
    /\ ret.cli.pms = NoBytes

\* C15, the DHE half: generateClientKeyExchange given a non-empty KexConfig
\* outside "0", "1", "pm1", "g3", "g5", "g7" fails and produces no
\* ClientKeyExchange and no pre-master secret.
DheUnknownKexConfigFatal ==
    (DheCliGenerated /\ config.KexConfig \notin {"", "0", "1", "pm1", "g3", "g5", "g7"})
    => CliGenerateFailed

\* a DHE client configured with an unknown token has sent g^x and returned a
\* secret, as the default does
DheUnknownKexConfigWitness ==
    /\ DheCliGenerated
    /\ config.KexConfig = "unknown"
    /\ ret.cli.err = ErrNil
    /\ cli.xOurs > 0
    /\ ret.cli.out = LenPrefixed(ModExp(cli.g, cli.xOurs, cli.p))
    /\ ret.cli.pms = Bytes(ModExp(cli.yTheirs, cli.xOurs, cli.p))

\* the ECDHE half of C15: generateClientKeyExchange given a list with a token
\* that is neither an option nor empty panics, whenever a curve is set, and
\* produces no ClientKeyExchange and no pre-master secret.
EcdheUnknownOptionFatal ==
    (/\ role = [side |-> "client", family |-> "ecdhe"]
     /\ ret.cli.op = "generateClientKeyExchange"
     /\ UnknownOptions(config.KexConfig) # {})
    => /\ CliGenerateFailed
       /\ ret.cli.err \in {Panic, errMissingSKX}
       /\ ret.cli.err = Panic => pc = "crashed"

\* an ECDHE client has panicked on the second token of its list
EcdheUnknownOptionWitness ==
    /\ role = [side |-> "client", family |-> "ecdhe"]
    /\ ret.cli.op = "generateClientKeyExchange"
    /\ config.KexConfig = "X25519_INVALID_S4,unknown"
    /\ ret.cli.err = Panic
    /\ pc = "crashed"

(***************************************************************************)
(* The small-subgroup elements of the DHE generateClientKeyExchange.       *)
(***************************************************************************)
\* the call got past the missing-ServerKeyExchange test
DheCliGeneratedWithGroup ==
    /\ DheCliGenerated
    /\ cli.p # Nil
    /\ cli.g # Nil
    /\ cli.yTheirs # Nil

\* C16: with KexConfig = "g3", if 3 divides p-1 every value y that
\* generateClientKeyExchange sends, whatever the random source gives, is a
\* non-identity element of order dividing 3 (y^3 mod p = 1 and y # 1); if 3 does
\* not divide p-1 the call fails with 'order not divisible by 3' and sends
\* nothing.
DheSubgroupElementSent ==
    (DheCliGeneratedWithGroup /\ config.KexConfig = "g3")
    => IF (cli.p - 1) % 3 = 0
       THEN /\ ret.cli.err = ErrNil
            /\ ret.cli.out = LenPrefixed(cli.yOurs)
            /\ ModExp(cli.yOurs, 3, cli.p) = 1
            /\ cli.yOurs # 1
       ELSE /\ ret.cli.err = "order not divisible by 3"
            /\ ret.cli.out = NoBytes

\* what does hold: the value sent is never 1, and is of order dividing 3 or zero
DheSubgroupElementOrZero ==
    (DheCliGeneratedWithGroup /\ config.KexConfig = "g3")
    => IF (cli.p - 1) % 3 = 0
       THEN /\ ret.cli.err = ErrNil
            /\ ret.cli.out = LenPrefixed(cli.yOurs)
            /\ ModExp(cli.yOurs, 3, cli.p) = 1 \/ cli.yOurs = 0
            /\ cli.yOurs # 1
       ELSE /\ ret.cli.err = "order not divisible by 3"
            /\ ret.cli.out = NoBytes

\* a client under p = 7 has sent y = 0, which the draw h = 0 gives
DheSubgroupZeroWitness ==
    /\ DheCliGeneratedWithGroup
    /\ config.KexConfig = "g3"
    /\ cli.p = 7
    /\ ret.cli.err = ErrNil
    /\ cli.yOurs = 0
    /\ ret.cli.out = <<0, 0>>

\* a client under p = 7 has sent an element of order 3
DheSubgroupOrderWitness ==
    /\ DheCliGeneratedWithGroup
    /\ config.KexConfig = "g3"
    /\ cli.p = 7
    /\ ret.cli.err = ErrNil
    /\ cli.yOurs > 1
    /\ ModExp(cli.yOurs, 3, cli.p) = 1

\* a client under p = 23 has refused to look for an element of order 3
DheSubgroupNoOrderWitness ==
    /\ DheCliGeneratedWithGroup
    /\ config.KexConfig = "g3"
    /\ cli.p = 23
    /\ ret.cli.err = "order not divisible by 3"

(***************************************************************************)
(* SpecECDHE: one ECDHE handshake between an honest server and an honest   *)
(* client without static payloads, driven in the order                     *)
(* generateServerKeyExchange, processServerKeyExchange,                    *)
(* generateClientKeyExchange, processClientKeyExchange; the driver stops   *)
(* at the first error.                                                     *)
(***************************************************************************)
\* the server's curve preferences and the client's supported curves
EcdhePreferences ==
    {<<CurveP256r1>>, <<Curve25519>>, <<Curve25519, CurveP256r1>>, <<CurveP224r1, Curve448>>}

EcdheSupported ==
    {<<CurveP256r1, Curve25519>>, <<Curve25519>>, <<Curve448, CurveP224r1, CurveP256r1>>}

InitECDHE ==
    /\ \E kex \in {"", "COMPRESS"}, t \in DheTrust, prefs \in EcdhePreferences :
         /\ config = Config(kex, t[2], DefaultSigAndHashes, DefaultSigAndHashes, prefs)
         /\ cert = [PrivateKey |-> RsaKeyA, PublicKey |-> t[1]]
    /\ \E offered \in EcdheSupported : hello = Hello(VersionTLS12, DefaultSigAndHashes, offered)
    /\ \E auth \in {NilAuth, SignedAuth(VersionTLS12, signatureRSA)} :
         /\ srv = NewEcdheKeyAgreement(auth)
         /\ cli = NewEcdheKeyAgreement(auth)
    /\ skx = NoBytes
    /\ ckx = NoBytes
    /\ ret = [srv |-> NoResult, cli |-> NoResult]
    /\ pc = "start"
    /\ calls = 0
    /\ role = [side |-> "both", family |-> "ecdhe"]

EcdheSrvGenerate ==
    /\ pc = "start"
    /\ \E d \in EcdheServerDraws(config, hello) :
         LET r == ecdheGenerateServerKeyExchange(srv, config, cert, hello, d, 1)
         IN /\ srv' = r.ka
            /\ skx' = r.skx.key
            /\ ret' = [ret EXCEPT !.srv = Result("generateServerKeyExchange", NoBytes,
                                      r.err, NoBytes, r.skx.key, r.skx.digest, FALSE, FALSE)]
            /\ pc' = IF r.err = ErrNil THEN "skxSent" ELSE "aborted"
    /\ calls' = calls + 1
    /\ UNCHANGED <<config, hello, cert, cli, ckx, role>>

EcdheCliProcess ==
    /\ pc = "skxSent"
    /\ LET r == ecdheProcessServerKeyExchange(cli, config, hello, cert, skx)
       IN /\ cli' = r.ka
          /\ ret' = [ret EXCEPT !.cli = Result("processServerKeyExchange", skx, r.err,
                                    NoBytes, NoBytes, r.digest, r.verifyCalled, r.checked)]
          /\ pc' = IF r.err = ErrNil THEN "skxDone" ELSE "aborted"
    /\ calls' = calls + 1
    /\ UNCHANGED <<config, hello, cert, srv, skx, ckx, role>>

EcdheCliGenerate ==
    /\ pc = "skxDone"
    /\ \E d \in EcdheClientDraws(cli), onNil \in NilKeyOutcomes :
         LET r == ecdheGenerateClientKeyExchange(cli, config, d, onNil)
         IN /\ cli' = r.ka
            /\ ckx' = r.ckx
            /\ ret' = [ret EXCEPT !.cli = Result("generateClientKeyExchange", NoBytes,
                                      r.err, r.pms, r.ckx, NoBytes, FALSE, FALSE)]
            /\ pc' = IF r.err = ErrNil THEN "ckxSent" ELSE "aborted"
    /\ calls' = calls + 1
    /\ UNCHANGED <<config, hello, cert, srv, skx, role>>

EcdheSrvProcess ==
    /\ pc = "ckxSent"
    /\ \E onNil \in NilKeyOutcomes :
         LET r == ecdheProcessClientKeyExchange(srv, ckx, onNil)
         IN /\ srv' = r.ka
            /\ ret' = [ret EXCEPT !.srv = Result("processClientKeyExchange", ckx, r.err,
                                      r.pms, NoBytes, NoBytes, FALSE, FALSE)]
            /\ pc' = "done"
    /\ calls' = calls + 1
    /\ UNCHANGED <<config, hello, cert, cli, skx, ckx, role>>

NextECDHE == EcdheSrvGenerate \/ EcdheCliProcess \/ EcdheCliGenerate \/ EcdheSrvProcess

SpecECDHE == InitECDHE /\ [][NextECDHE]_vars

\* C17: in an ECDHE handshake without static payloads run in the order
\* generateServerKeyExchange, processServerKeyExchange, generateClientKeyExchange,
\* processClientKeyExchange, the client holds the curve identifier and the
\* public point the server sent (preferences [P-256] against the client list
\* [P-256, X25519] give P-256), the server holds the point the client sent, and
\* the server returns no error and the pre-master secret the client returned,
\* with or without COMPRESS.
EcdheBothDeriveSharedSecret ==
    (pc = "done" /\ role = [side |-> "both", family |-> "ecdhe"]) =>
        /\ cli.curveID = srv.curveID
        /\ cli.curve = srv.curve
        /\ cli.serverPublicKey = CurvePublic(srv.curve, srv.privateKey)
        /\ (/\ config.curvePreferences = <<CurveP256r1>>
            /\ hello.supportedCurves = <<CurveP256r1, Curve25519>>) => cli.curveID = CurveP256r1
        /\ srv.clientX = cli.clientPublicKey.X
        /\ srv.clientY = cli.clientPublicKey.Y
        /\ ret.srv.err = ErrNil
        /\ Len(ret.cli.pms) > 0
        /\ ret.srv.pms = ret.cli.pms

\* a completed P-256 handshake from the preferences [P-256] and the client list
\* [P-256, X25519], the client's point sent compressed
EcdheSharedSecretWitness ==
    /\ pc = "done"
    /\ role = [side |-> "both", family |-> "ecdhe"]
    /\ config.curvePreferences = <<CurveP256r1>>
    /\ hello.supportedCurves = <<CurveP256r1, Curve25519>>
    /\ config.KexConfig = "COMPRESS"
    /\ srv.curveID = CurveP256r1
    /\ Len(ckx) = 3
    /\ ret.srv.err = ErrNil
    /\ ret.srv.pms = ret.cli.pms

\* a completed X25519 handshake
EcdheSharedSecretMontgomeryWitness ==
    /\ pc = "done"
    /\ role = [side |-> "both", family |-> "ecdhe"]
    /\ srv.curveID = Curve25519
    /\ ret.srv.err = ErrNil
    /\ ret.srv.pms = ret.cli.pms

(***************************************************************************)
(* generateClientKeyExchange without an accepted ServerKeyExchange.        *)
(***************************************************************************)
\* a step in which generateClientKeyExchange is called on the DHE client as the
\* first or the second call on the object
DheCliGenerateStep ==
    /\ role = [side |-> "client", family |-> "dhe"]
    /\ calls <= 1
    /\ calls' = calls + 1
    /\ ret'.cli.op = "generateClientKeyExchange"

\* the call before this one was a processServerKeyExchange whose message passed
\* every length and range check: it went on to verifyParameters
DheSkxAccepted ==
    /\ ret.cli.op = "processServerKeyExchange"
    /\ ret.cli.verifyCalled

\* C18: on a DHE client, generateClientKeyExchange produces a ClientKeyExchange
\* and a pre-master secret only if an earlier processServerKeyExchange accepted
\* the server's parameters, passing all length and range checks; when none was
\* processed, or the processed one was rejected as a wire-format error, it fails
\* with 'missing ServerKeyExchange message'.
DheClientNeedsAcceptedSkx ==
    [][(DheCliGenerateStep /\ ~DheSkxAccepted)
       => /\ ret'.cli.err = errMissingSKX
          /\ ret'.cli.out = NoBytes
          /\ ret'.cli.pms = NoBytes]_vars

\* what does hold: the call fails with 'missing ServerKeyExchange message'
\* exactly when p, g or yTheirs is nil
DheClientNeedsStoredSkx ==
    [][DheCliGenerateStep
       => (ret'.cli.err = errMissingSKX
           <=> (cli.p = Nil \/ cli.g = Nil \/ cli.yTheirs = Nil))]_vars

\* a client that refused y = p = 23 has gone on to send a ClientKeyExchange
DheClientRejectedSkxWitness ==
    /\ DheCliGenerated
    /\ calls = 2
    /\ cli.p = 23
    /\ cli.yTheirs = 23
    /\ ret.cli.err = ErrNil
    /\ Len(ret.cli.out) > 2

\* a client that processed nothing has met the missing-message error
DheClientMissingSkxWitness ==
    /\ DheCliGenerated
    /\ calls = 1
    /\ ret.cli.err = errMissingSKX

\* an ECDHE client configured without a static payload has been asked for its
\* ClientKeyExchange
EcdheCliGeneratedFresh ==
    /\ role = [side |-> "client", family |-> "ecdhe"]
    /\ ret.cli.op = "generateClientKeyExchange"
    /\ StaticPositions(config.KexConfig) = {}
    /\ UnknownOptions(config.KexConfig) = {}

\* C19: on an ECDHE client with no static payload configured,
\* generateClientKeyExchange computes a shared secret only if serverPublicKey is
\* set; when no ServerKeyExchange was processed, or the processed one was
\* rejected for a bad length or an undecodable point, so that serverPublicKey is
\* absent, it fails with 'missing ServerKeyExchange message'.
EcdheClientNeedsServerKey ==
    EcdheCliGeneratedFresh
    => /\ ret.cli.err = ErrNil => cli.serverPublicKey # NoPoint
       /\ cli.serverPublicKey = NoPoint
          => /\ ret.cli.err = errMissingSKX
             /\ cli.privateKey = Nil

\* what does hold: the call fails with 'missing ServerKeyExchange message'
\* exactly when no curve is set, and returns a secret only with a server key
EcdheClientNeedsCurve ==
    EcdheCliGeneratedFresh
    => /\ ret.cli.err = ErrNil => cli.serverPublicKey # NoPoint
       /\ ret.cli.err = errMissingSKX <=> cli.curve = NoCurve

\* a client whose ServerKeyExchange was cut inside the point has generated a key
\* pair and handed GenerateSharedSecret a nil server key
EcdheClientNoServerKeyWitness ==
    /\ EcdheCliGeneratedFresh
    /\ cli.curve = CurveP256r1
    /\ cli.serverPublicKey = NoPoint
    /\ cli.privateKey # Nil
    /\ ret.cli.err \in NilKeyOutcomes

\* a client that processed nothing has met the missing-message error
EcdheClientMissingSkxWitness ==
    /\ EcdheCliGeneratedFresh
    /\ calls = 1
    /\ cli.curve = NoCurve
    /\ ret.cli.err = errMissingSKX

\* a client that accepted a P-256 point has returned a secret
EcdheClientSecretWitness ==
    /\ EcdheCliGeneratedFresh
    /\ cli.curve = CurveP256r1
    /\ cli.serverPublicKey # NoPoint
    /\ ret.cli.err = ErrNil
    /\ Len(ret.cli.pms) = 1

(***************************************************************************)
(* The assignments of verifyError.                                         *)
(***************************************************************************)
\* a step in which processServerKeyExchange is called on the client object
CliProcessSkxStep ==
    /\ calls' = calls + 1
    /\ ret'.srv = ret.srv
    /\ ret'.cli.op = "processServerKeyExchange"

\* a step that leaves the verifyError of the server object and of the client
\* object as they were
VerifyErrorKept ==
    /\ srv'.verifyError = srv.verifyError
    /\ cli'.verifyError = cli.verifyError

\* C20 as stated: every call of processServerKeyExchange, whatever its outcome,
\* assigns verifyError exactly once (it executes the one assignment of the
\* result of verifyParameters), and no other operation assigns it.
VerifyErrorSetOnEveryCall ==
    [][role.family \in {"rsa", "dhe", "ecdhe"}
       => IF CliProcessSkxStep
          THEN /\ ret'.cli.verifyCalled
               /\ srv'.verifyError = srv.verifyError
          ELSE VerifyErrorKept]_vars

\* C20: a call of processServerKeyExchange assigns verifyError exactly once, the
\* result of verifyParameters, when the message parses as parameters of the key
\* agreement, and not at all when it returns before that (a wire-format error, a
\* key exchange that is not ephemeral RSA): verifyError is then what it was
\* before the call; no other operation assigns it.
VerifyErrorSetWhenParsed ==
    [][role.family \in {"rsa", "dhe", "ecdhe"}
       => IF CliProcessSkxStep
          THEN /\ ret'.cli.verifyCalled <=> SkxParsed(ret'.cli.in).ok
               /\ ret'.cli.verifyCalled
                  => cli'.verifyError =
                         verifyParameters(cli.auth, config, hello, cert,
                                          SkxParsed(ret'.cli.in).params,
                                          SkxParsed(ret'.cli.in).sig).err
               /\ ~ret'.cli.verifyCalled => cli'.verifyError = cli.verifyError
               /\ srv'.verifyError = srv.verifyError
          ELSE VerifyErrorKept]_vars

\* a client holding the verify error of a first message has refused a second,
\* truncated one and still holds that error
VerifyErrorStaleWitness ==
    /\ role.side = "client"
    /\ role.family \in {"rsa", "dhe", "ecdhe"}
    /\ calls = 2
    /\ ret.cli.op = "processServerKeyExchange"
    /\ ~ret.cli.verifyCalled
    /\ ret.cli.err = errServerKeyExchange
    /\ cli.verifyError # ErrNil

\* a client holding a verify error has processed a second message whose
\* signature verifies: the one assignment of the call replaced the error
VerifyErrorReplacedWitness ==
    /\ role.side = "client"
    /\ role.family \in {"rsa", "dhe", "ecdhe"}
    /\ calls = 2
    /\ ret.cli.op = "processServerKeyExchange"
    /\ ret.cli.verifyCalled
    /\ ret.cli.checked
    /\ cli.verifyError = ErrNil
    /\ cli.auth.kind # "nil"

(***************************************************************************)
(* SpecObs: two key-agreement objects of one family, DHE or ECDHE, that    *)
(* differ at most in their observability fields are given the same calls   *)
(* with the same messages and the same random draws, at most MaxCalls      *)
(* times.  srv holds the first object and cli the second; ret.srv and      *)
(* ret.cli hold what the last call returned on each.                       *)
(***************************************************************************)
\* the values the second object starts with in yClient, yServer (DHE) and in
\* clientX, clientY, clientPrivKey, serverPrivKey (ECDHE)
ObsDheFields == {<<Nil, Nil>>, <<5, Nil>>, <<5, 9>>}

ObsEcdheFields == {<<Nil, Nil, NoBytes, NoBytes>>, <<6, 3, NoBytes, NoBytes>>,
                   <<6, 3, <<3>>, <<5>>>>}

ObsAuths == {NilAuth, SignedAuth(VersionTLS12, signatureRSA)}

InitObs ==
    /\ \E kex \in {"", "COMPRESS"} :
         config = Config(kex, FALSE, DefaultSigAndHashes, DefaultSigAndHashes,
                         <<CurveP256r1>>)
    /\ cert = [PrivateKey |-> RsaKeyA, PublicKey |-> RsaKeyA]
    /\ hello = Hello(VersionTLS12, DefaultSigAndHashes, <<CurveP256r1>>)
    /\ \E auth \in ObsAuths :
         \/ /\ role = [side |-> "twin", family |-> "dhe"]
            /\ srv = NewDheKeyAgreement(auth)
            /\ \E f \in ObsDheFields :
                 cli = [NewDheKeyAgreement(auth) EXCEPT !.yClient = f[1], !.yServer = f[2]]
         \/ /\ role = [side |-> "twin", family |-> "ecdhe"]
            /\ srv = NewEcdheKeyAgreement(auth)
            /\ \E f \in ObsEcdheFields :
                 cli = [NewEcdheKeyAgreement(auth)
                           EXCEPT !.clientX = f[1], !.clientY = f[2],
                                  !.clientPrivKey = f[3], !.serverPrivKey = f[4]]
    /\ skx = NoBytes
    /\ ckx = NoBytes
    /\ ret = [srv |-> NoResult, cli |-> NoResult]
    /\ pc = "ready"
    /\ calls = 0

ObsMayCall(family) ==
    /\ pc = "ready"
    /\ calls < MaxCalls
    /\ role = [side |-> "twin", family |-> family]

\* the messages the two objects are given
ObsDheSkx(auth, cfg, crt, clientHello) ==
    {DhParamsBytes(t) \o HonestBlob(auth, cfg, crt, clientHello, DhParamsBytes(t))
       : t \in {<<23, 2, 22>>, <<7, 2, 6>>, <<23, 2, 23>>}}
    \cup {DhParamsBytes(<<23, 2, 22>>), <<0, 1, 23, 0, 9, 2>>}

ObsDheCkx == {LenPrefixed(y) : y \in {2, DHGroupP}} \cup {<<0, 2, 5>>}

ObsEcdheSkx(auth, cfg, crt, clientHello) ==
    {p \o HonestBlob(auth, cfg, crt, clientHello, p)
       : p \in {EcdhParamsBytes(CurveP256r1, <<4, 6, 3>>),
                EcdhParamsBytes(Curve25519, <<9>>),
                EcdhParamsBytes(CurveP256r1, <<4, 6, 4>>)}}
    \cup {EcdhParamsBytes(CurveP256r1, <<4, 6, 3>>), <<3, 0, 23, 9, 4, 5, 1>>}

ObsEcdheCkx == {<<3, 4, 10, 6>>, <<2, 3, 6>>, <<3, 4, 10, 7>>, <<2, 4, 10, 6>>}

ObsDheSrvGenerate ==
    /\ ObsMayCall("dhe")
    /\ \E x \in {2, 5} :
         LET r1 == dheGenerateServerKeyExchange(srv, config, cert, hello, x, 1)
             r2 == dheGenerateServerKeyExchange(cli, config, cert, hello, x, 1)
         IN /\ srv' = r1.ka
            /\ cli' = r2.ka
            /\ skx' = r1.skx.key
            /\ ret' = [srv |-> Result("generateServerKeyExchange", NoBytes, r1.err,
                                      NoBytes, r1.skx.key, r1.skx.digest, FALSE, FALSE),
                       cli |-> Result("generateServerKeyExchange", NoBytes, r2.err,
                                      NoBytes, r2.skx.key, r2.skx.digest, FALSE, FALSE)]
    /\ calls' = calls + 1
    /\ UNCHANGED <<config, hello, cert, ckx, pc, role>>

ObsDheCliProcess ==
    /\ ObsMayCall("dhe")
    /\ \E m \in ObsDheSkx(srv.auth, config, cert, hello) :
         LET r1 == dheProcessServerKeyExchange(srv, config, hello, cert, m)
             r2 == dheProcessServerKeyExchange(cli, config, hello, cert, m)
         IN /\ srv' = r1.ka
            /\ cli' = r2.ka
            /\ ret' = [srv |-> Result("processServerKeyExchange", m, r1.err, NoBytes,
                                      NoBytes, r1.digest, r1.verifyCalled, r1.checked),
                       cli |-> Result("processServerKeyExchange", m, r2.err, NoBytes,
                                      NoBytes, r2.digest, r2.verifyCalled, r2.checked)]
    /\ calls' = calls + 1
    /\ UNCHANGED <<config, hello, cert, skx, ckx, pc, role>>

ObsDheCliGenerate ==
    /\ ObsMayCall("dhe")
    /\ \E h \in DheClientDraws(srv, config) \cap PeerDraws :
         LET r1 == dheGenerateClientKeyExchange(srv, config, h)
             r2 == dheGenerateClientKeyExchange(cli, config, h)
         IN /\ srv' = r1.ka
            /\ cli' = r2.ka
            /\ ckx' = r1.ckx
            /\ ret' = [srv |-> Result("generateClientKeyExchange", NoBytes, r1.err,
                                      r1.pms, r1.ckx, NoBytes, FALSE, FALSE),
                       cli |-> Result("generateClientKeyExchange", NoBytes, r2.err,
                                      r2.pms, r2.ckx, NoBytes, FALSE, FALSE)]
            /\ pc' = IF r1.err = Panic \/ r2.err = Panic THEN "crashed" ELSE pc
    /\ calls' = calls + 1
    /\ UNCHANGED <<config, hello, cert, skx, role>>

ObsDheSrvProcess ==
    /\ ObsMayCall("dhe")
    /\ \E m \in ObsDheCkx :
         LET r1 == dheProcessClientKeyExchange(srv, m)
             r2 == dheProcessClientKeyExchange(cli, m)
         IN /\ srv' = r1.ka
            /\ cli' = r2.ka
            /\ ret' = [srv |-> Result("processClientKeyExchange", m, r1.err, r1.pms,
                                      NoBytes, NoBytes, FALSE, FALSE),
                       cli |-> Result("processClientKeyExchange", m, r2.err, r2.pms,
                                      NoBytes, NoBytes, FALSE, FALSE)]
            /\ pc' = IF r1.err = Panic \/ r2.err = Panic THEN "crashed" ELSE pc
    /\ calls' = calls + 1
    /\ UNCHANGED <<config, hello, cert, skx, ckx, role>>

ObsEcdheSrvGenerate ==
    /\ ObsMayCall("ecdhe")
    /\ \E d \in EcdheServerDraws(config, hello) :
         LET r1 == ecdheGenerateServerKeyExchange(srv, config, cert, hello, d, 1)
             r2 == ecdheGenerateServerKeyExchange(cli, config, cert, hello, d, 1)
         IN /\ srv' = r1.ka
            /\ cli' = r2.ka
            /\ skx' = r1.skx.key
            /\ ret' = [srv |-> Result("generateServerKeyExchange", NoBytes, r1.err,
                                      NoBytes, r1.skx.key, r1.skx.digest, FALSE, FALSE),
                       cli |-> Result("generateServerKeyExchange", NoBytes, r2.err,
                                      NoBytes, r2.skx.key, r2.skx.digest, FALSE, FALSE)]
    /\ calls' = calls + 1
    /\ UNCHANGED <<config, hello, cert, ckx, pc, role>>

ObsEcdheCliProcess ==
    /\ ObsMayCall("ecdhe")
    /\ \E m \in ObsEcdheSkx(srv.auth, config, cert, hello) :
         LET r1 == ecdheProcessServerKeyExchange(srv, config, hello, cert, m)
             r2 == ecdheProcessServerKeyExchange(cli, config, hello, cert, m)
         IN /\ srv' = r1.ka
            /\ cli' = r2.ka
            /\ ret' = [srv |-> Result("processServerKeyExchange", m, r1.err, NoBytes,
                                      NoBytes, r1.digest, r1.verifyCalled, r1.checked),
                       cli |-> Result("processServerKeyExchange", m, r2.err, NoBytes,
                                      NoBytes, r2.digest, r2.verifyCalled, r2.checked)]
    /\ calls' = calls + 1
    /\ UNCHANGED <<config, hello, cert, skx, ckx, pc, role>>

ObsEcdheCliGenerate ==
    /\ ObsMayCall("ecdhe")
    /\ \E d \in EcdheClientDraws(srv), onNil \in NilKeyOutcomes :
         LET r1 == ecdheGenerateClientKeyExchange(srv, config, d, onNil)
             r2 == ecdheGenerateClientKeyExchange(cli, config, d, onNil)
         IN /\ srv' = r1.ka
            /\ cli' = r2.ka
            /\ ckx' = r1.ckx
            /\ ret' = [srv |-> Result("generateClientKeyExchange", NoBytes, r1.err,
                                      r1.pms, r1.ckx, NoBytes, FALSE, FALSE),
                       cli |-> Result("generateClientKeyExchange", NoBytes, r2.err,
                                      r2.pms, r2.ckx, NoBytes, FALSE, FALSE)]
            /\ pc' = IF r1.err = Panic \/ r2.err = Panic THEN "crashed" ELSE pc
    /\ calls' = calls + 1
    /\ UNCHANGED <<config, hello, cert, skx, role>>

ObsEcdheSrvProcess ==
    /\ ObsMayCall("ecdhe")
    /\ \E m \in ObsEcdheCkx, onNil \in NilKeyOutcomes :
         LET r1 == ecdheProcessClientKeyExchange(srv, m, onNil)
             r2 == ecdheProcessClientKeyExchange(cli, m, onNil)
         IN /\ srv' = r1.ka
            /\ cli' = r2.ka
            /\ ret' = [srv |-> Result("processClientKeyExchange", m, r1.err, r1.pms,
                                      NoBytes, NoBytes, FALSE, FALSE),
                       cli |-> Result("processClientKeyExchange", m, r2.err, r2.pms,
                                      NoBytes, NoBytes, FALSE, FALSE)]
            /\ pc' = IF r1.err = Panic \/ r2.err = Panic THEN "crashed" ELSE pc
    /\ calls' = calls + 1
    /\ UNCHANGED <<config, hello, cert, skx, ckx, role>>

NextObs ==
    \/ ObsDheSrvGenerate
    \/ ObsDheCliProcess
    \/ ObsDheCliGenerate
    \/ ObsDheSrvProcess
    \/ ObsEcdheSrvGenerate
    \/ ObsEcdheCliProcess
    \/ ObsEcdheCliGenerate
    \/ ObsEcdheSrvProcess

SpecObs == InitObs /\ [][NextObs]_vars

\* the object with its observability fields blanked
ObsBlanked(ka) ==
    IF role.family = "dhe" THEN [ka EXCEPT !.yClient = Nil, !.yServer = Nil]
    ELSE [ka EXCEPT !.clientX = Nil, !.clientY = Nil,
                    !.clientPrivKey = NoBytes, !.serverPrivKey = NoBytes]

\* C21: the observability fields (ECDHE clientX, clientY, clientPrivKey,
\* serverPrivKey; DHE yClient, yServer) never influence the handshake: two
\* objects that differ only in these fields and are given the same operations
\* with the same inputs and random draws return the same messages, pre-master
\* secrets and errors, and still differ in nothing but these fields.
ObservabilityFieldsInert ==
    role.side = "twin"
    => /\ ret.srv = ret.cli
       /\ ObsBlanked(srv) = ObsBlanked(cli)

\* an ECDHE client pair that differs in clientX has returned one and the same
\* ClientKeyExchange and secret
ObservabilityEcdheWitness ==
    /\ role = [side |-> "twin", family |-> "ecdhe"]
    /\ srv.clientX # cli.clientX
    /\ ret.srv.op = "generateClientKeyExchange"
    /\ ret.srv.err = ErrNil
    /\ Len(ret.srv.pms) = 1
    /\ ret.cli.pms = ret.srv.pms
    /\ ret.cli.out = ret.srv.out

\* a DHE server pair that differs in yClient has returned one and the same
\* ServerKeyExchange
ObservabilityDheWitness ==
    /\ role = [side |-> "twin", family |-> "dhe"]
    /\ srv.yClient # cli.yClient
    /\ ret.srv.op = "generateServerKeyExchange"
    /\ ret.srv.err = ErrNil
    /\ Len(ret.srv.out) > 0
    /\ ret.cli.out = ret.srv.out

(***************************************************************************)
(* The framing of the key-exchange messages, read off the wire format      *)
(* alone: a ServerKeyExchange is the parameters followed by the            *)
(* authentication blob, a ClientKeyExchange one length-prefixed field.     *)
(***************************************************************************)
RECURSIVE AfterFields(_, _)
\* what follows n fields with a two-byte length each; NoBytes when one is cut short
AfterFields(m, n) ==
    IF n = 0 THEN m
    ELSE IF Len(m) < 2 \/ Len(m) - 2 < ReadU16(m) THEN NoBytes
    ELSE AfterFields(Slice(m, 2 + ReadU16(m)), n - 1)

\* what follows the parameters of a ServerKeyExchange
SkxRest(family, m) ==
    CASE family = "dhe" -> AfterFields(m, 3)
      [] family = "rsa" -> AfterFields(m, 2)
      [] OTHER -> IF Len(m) < 4 \/ Len(m) - 4 < m[4] THEN NoBytes ELSE Slice(m, 4 + m[4])

\* the authentication blob has exactly the declared length: empty when unsigned,
\* a two-byte algorithm pair from TLS 1.2 on, then a length-prefixed signature
BlobFramed(auth, blob) ==
    IF auth.kind = "nil" THEN blob = <<>>
    ELSE IF auth.version >= VersionTLS12
         THEN Len(blob) >= 4 /\ ReadU16(Slice(blob, 2)) = Len(blob) - 4
    ELSE Len(blob) >= 2 /\ ReadU16(blob) = Len(blob) - 2

SkxFramed(family, auth, m) ==
    /\ SkxRest(family, m) # NoBytes
    /\ BlobFramed(auth, SkxRest(family, m))

\* a client's parser has just returned on a ServerKeyExchange
CliParsedSkx ==
    /\ role.side = "client"
    /\ ret.cli.op = "processServerKeyExchange"
    /\ role.family = "rsa" => cli.ephemeral

\* a DHE server's parser has just returned on a ClientKeyExchange
SrvParsedDheCkx ==
    /\ role = [side |-> "server", family |-> "dhe"]
    /\ ret.srv.op = "processClientKeyExchange"

\* C22: every ServerKeyExchange and ClientKeyExchange parser, under a signed or
\* an unsigned ParameterAuth, returns the wire-format error on any truncation
\* or length mismatch of the message, bytes left over after the last declared
\* field included.
ParsersRejectMisframed ==
    /\ (CliParsedSkx /\ ~SkxFramed(role.family, cli.auth, ret.cli.in))
           => ret.cli.err = errServerKeyExchange
    /\ (SrvParsedDheCkx /\ (Len(ret.srv.in) < 2 \/ ReadU16(ret.srv.in) # Len(ret.srv.in) - 2))
           => ret.srv.err = errClientKeyExchange

\* an unsigned DHE client has accepted a ServerKeyExchange with bytes left over
\* after dh_Ys, verification not being skipped
ParserLeftoverWitness ==
    /\ CliParsedSkx
    /\ role.family = "dhe"
    /\ cli.auth.kind = "nil"
    /\ ~config.InsecureSkipVerify
    /\ SkxRest("dhe", ret.cli.in) \notin {NoBytes, <<>>}
    /\ ret.cli.err = ErrNil
    /\ cli.yTheirs # Nil

\* what the parsers do reject: a message whose parameters are cut short, and,
\* when verification is not skipped and the ParameterAuth is signed, one whose
\* blob has not the declared length; the error is the wire-format one except
\* for an ECDHE message that does not name a supported curve
ParsersRejectTruncated ==
    /\ (CliParsedSkx /\ ~SkxFramed(role.family, cli.auth, ret.cli.in)
        /\ (SkxRest(role.family, ret.cli.in) = NoBytes
            \/ (cli.auth.kind # "nil" /\ ~config.InsecureSkipVerify)))
           => ret.cli.err \in {errServerKeyExchange, errUnsupportedCurve, errUnsupportedHash}
    /\ (SrvParsedDheCkx /\ (Len(ret.srv.in) < 2 \/ ReadU16(ret.srv.in) # Len(ret.srv.in) - 2))
           => ret.srv.err = errClientKeyExchange

(***************************************************************************)
(* SpecHash: hashForServerKeyExchange applied to drawn arguments, next to  *)
(* the runs of SpecAuth in which signParameters and verifyParameters call  *)
(* it.  srv holds the arguments and ret.srv the three values returned.     *)
(***************************************************************************)
\* hash identifiers: the six assigned ones, 0, and two that name none
HashIds == {0, hashMD5, hashSHA1, hashSHA224, hashSHA256, hashSHA384, hashSHA512, 7, 255}

\* signature types: the three known ones and the anonymous 0
HashSigTypes == SigTypes \cup {0}

HashSlices ==
    {<<ClientRandom, ServerRandom, p>> : p \in AuthParams} \cup {<<>>, <<<<1>>, <<2, 3>>>>}

InitHash ==
    /\ config = Config("", FALSE, AuthServerList, <<>>, <<>>)
    /\ hello = Hello(VersionTLS12, <<>>, <<>>)
    /\ cert = [PrivateKey |-> RsaKeyA, PublicKey |-> RsaKeyA]
    /\ \E sigType \in HashSigTypes, hashFunc \in HashIds, version \in AuthVersions,
          slices \in HashSlices :
         srv = [sigType |-> sigType, hashFunc |-> hashFunc, version |-> version,
                slices |-> slices]
    /\ cli = NilAuth
    /\ role = [side |-> "none", family |-> "hash"]
    /\ skx = NoBytes
    /\ ckx = NoBytes
    /\ ret = [srv |-> NoResult, cli |-> NoResult]
    /\ pc = "ready"
    /\ calls = 0

HashApply ==
    /\ role.family = "hash"
    /\ pc = "ready"
    /\ LET r == hashForServerKeyExchange(srv.sigType, srv.hashFunc, srv.version, srv.slices)
       IN ret' = [ret EXCEPT !.srv = Result("hashForServerKeyExchange", NoBytes, r.err,
                                            NoBytes, NoBytes, r.digest, FALSE, FALSE)
                                     @@ [hashFunc |-> r.hashFunc]]
    /\ pc' = "done"
    /\ calls' = calls + 1
    /\ UNCHANGED <<config, hello, cert, srv, cli, skx, ckx, role>>

NextHash == HashApply \/ AuthSign \/ AuthVerifySigned \/ AuthVerifyPeer

SpecHash == (InitHash \/ InitAuth) /\ [][NextHash]_vars

\* the hash function a TLS 1.2 identifier names, applied
HashNamed(id, slices) ==
    CASE id = 1 -> md5Hash(slices)
      [] id = 2 -> sha1Hash(slices)
      [] id = 3 -> sha224Hash(slices)
      [] id = 4 -> sha256Hash(slices)
      [] id = 5 -> sha384Hash(slices)
      [] id = 6 -> sha512Hash(slices)

\* the digest the stated rule gives; NoBytes where it gives an error
StatedDigest(sigType, hashId, version, slices) ==
    IF version >= VersionTLS12
    THEN IF hashId \in 1..6 THEN HashNamed(hashId, slices) ELSE NoBytes
    ELSE IF sigType \in {signatureECDSA, signatureDSA} THEN sha1Hash(slices)
    ELSE md5Hash(slices) \o sha1Hash(slices)

\* the three slices signParameters and verifyParameters hash
SignedSlices(params) == <<hello.random, hello.serverRandom, params>>

\* hashForServerKeyExchange has returned
HashApplied == role.family = "hash" /\ pc = "done"

\* C23: hashForServerKeyExchange below TLS 1.2 ignores hashFunc and uses SHA-1
\* for ECDSA and DSA and the MD5||SHA1 concatenation for RSA; from TLS 1.2 on it
\* uses exactly the hash hashFunc names (MD5 = 1 .. SHA512 = 6) and returns an
\* error for any other identifier; signParameters and verifyParameters hash
\* clientRandom || serverRandom || params with that same function for the same
\* (version, sigType, hashId).
HashForServerKeyExchangeRule ==
    /\ (HashApplied /\ (srv.version >= VersionTLS12 \/ srv.sigType \in SigTypes))
           => /\ ret.srv.digest
                   = StatedDigest(srv.sigType, srv.hashFunc, srv.version, srv.slices)
              /\ (ret.srv.err # ErrNil)
                   <=> (srv.version >= VersionTLS12 /\ srv.hashFunc \notin 1..6)
    /\ (role.family = "auth" /\ ret.srv.op = "signParameters" /\ ret.srv.err = ErrNil)
           => ret.srv.digest
                = StatedDigest(srv.sigType, srv.sh.hash, srv.version, SignedSlices(ret.srv.in))
    /\ (role.family = "auth" /\ ret.cli.op = "verifyParameters" /\ ret.cli.err = ErrNil)
           => ret.cli.digest
                = StatedDigest(cli.sigType, cli.sh.hash, cli.version,
                               SignedSlices(Prefix(skx, Len(skx) - Len(ret.cli.in))))
    /\ (role.family = "auth" /\ ret.srv.op = "signParameters"
        /\ ret.cli.op = "verifyParameters" /\ ret.cli.err = ErrNil)
           => ret.cli.digest = ret.srv.digest

\* below TLS 1.2 an RSA call given the identifier of SHA-512 has returned the
\* MD5||SHA1 concatenation
HashIgnoredIdWitness ==
    /\ HashApplied
    /\ srv.version < VersionTLS12
    /\ srv.sigType = signatureRSA
    /\ srv.hashFunc = hashSHA512
    /\ Len(srv.slices) = 3
    /\ ret.srv.digest = md5Hash(srv.slices) \o sha1Hash(srv.slices)
    /\ ret.srv.digest # sha512Hash(srv.slices)

\* from TLS 1.2 on an identifier that names no hash has got an error
HashUnknownIdWitness ==
    /\ HashApplied
    /\ srv.version >= VersionTLS12
    /\ srv.hashFunc = 7
    /\ ret.srv.err = errUnknownHash

\* a TLS 1.2 client has verified what the server signed, both with SHA-256
HashSignVerifyWitness ==
    /\ role.family = "auth"
    /\ ret.srv.op = "signParameters"
    /\ ret.cli.op = "verifyParameters"
    /\ ret.cli.err = ErrNil
    /\ cli.version >= VersionTLS12
    /\ cli.sh.hash = hashSHA256
    /\ ret.cli.digest = sha256Hash(SignedSlices(ret.srv.in))

(***************************************************************************)
(* The RSA key agreement that is not ephemeral.                            *)
(***************************************************************************)
\* a step in which an operation is called on an RSA object that is not ephemeral
RsaPlainStep ==
    /\ role.family = "rsa"
    /\ calls' = calls + 1
    /\ ~srv.ephemeral
    /\ ~cli.ephemeral

\* the ciphertext of a ClientKeyExchange the client built
RsaCkxBody(ka, out) == IF ka.version # VersionSSL30 THEN Slice(out, 2) ELSE out

\* C24: when the RSA key agreement is not ephemeral, processServerKeyExchange
\* returns nil for every message and changes no field of the object,
\* generateServerKeyExchange returns no message and no error and changes nothing
\* but clientVersion, and a generateClientKeyExchange then encrypts to the public
\* key of the certificate.
RsaNonEphemeralIgnoresSkxStep ==
    /\ (RsaPlainStep /\ role.side = "client" /\ ret'.cli.op = "processServerKeyExchange")
           => /\ ret'.cli.err = ErrNil
              /\ ~ret'.cli.verifyCalled
              /\ cli' = cli
    /\ (RsaPlainStep /\ role.side = "server" /\ ret'.srv.op = "generateServerKeyExchange")
           => /\ ret'.srv.err = ErrNil
              /\ ret'.srv.out = NoBytes
              /\ skx' = NoBytes
              /\ srv' = [srv EXCEPT !.clientVersion = hello.vers]
    /\ (RsaPlainStep /\ role.side = "client" /\ ret'.cli.op = "generateClientKeyExchange")
           => /\ cli' = cli
              /\ cli.publicKey = NoKey
              /\ (ret'.cli.err # ErrNil) <=> (cert.PublicKey.type # "rsa")
              /\ (ret'.cli.err = ErrNil)
                   => /\ ckx' = ret'.cli.out
                      /\ RsaCkxBody(cli, ckx') = EncryptPKCS1v15(cert.PublicKey, ret'.cli.pms, 5).c
                      /\ DecryptPKCS1v15SessionKey(cert.PrivateKey, RsaCkxBody(cli, ckx'),
                                                   Fill(Len(ret'.cli.pms), 0)).key
                           = ret'.cli.pms

RsaNonEphemeralIgnoresSkx == [][RsaNonEphemeralIgnoresSkxStep]_vars

\* a client that is not ephemeral has returned nil on a ServerKeyExchange cut
\* short and has no public key of its own
RsaNonEphemeralSkxWitness ==
    /\ role = [side |-> "client", family |-> "rsa"]
    /\ ~cli.ephemeral
    /\ ret.cli.op = "processServerKeyExchange"
    /\ ret.cli.in = <<0, 9, 12>>
    /\ ret.cli.err = ErrNil
    /\ cli.publicKey = NoKey
    /\ cli.verifyError = ErrNil

\* a client that is not ephemeral has sent a ciphertext the certificate's private
\* key opens, in its second call
RsaNonEphemeralCkxWitness ==
    /\ role = [side |-> "client", family |-> "rsa"]
    /\ ~cli.ephemeral
    /\ calls = 2
    /\ ret.cli.op = "generateClientKeyExchange"
    /\ ret.cli.err = ErrNil
    /\ DecryptPKCS1v15SessionKey(cert.PrivateKey, RsaCkxBody(cli, ckx),
                                 Fill(Len(ret.cli.pms), 0)).key = ret.cli.pms

\* a server that is not ephemeral has returned no ServerKeyExchange and recorded
\* the client's version
RsaNonEphemeralNoSkxWitness ==
    /\ role = [side |-> "server", family |-> "rsa"]
    /\ ~srv.ephemeral
    /\ ret.srv.op = "generateServerKeyExchange"
    /\ ret.srv.out = NoBytes
    /\ srv.clientVersion = hello.vers
    /\ srv.privateKey = NoKey

(***************************************************************************)
(* The ephemeral RSA processServerKeyExchange.                             *)
(***************************************************************************)
\* a step in which an ephemeral RSA client is given a ServerKeyExchange
RsaEphemeralSkxStep ==
    /\ role = [side |-> "client", family |-> "rsa"]
    /\ calls' = calls + 1
    /\ cli.ephemeral
    /\ ret'.cli.op = "processServerKeyExchange"

\* the modulus or the exponent field of m is cut short, or the exponent is
\* declared longer than four bytes
RsaSkxRefused(m) ==
    \/ AfterFields(m, 2) = NoBytes
    \/ ReadU16(AfterFields(m, 1)) > 4

\* the n-th length-prefixed field of a message that holds it
RsaSkxField(m, n) ==
    LET at == AfterFields(m, n - 1) IN Prefix(Slice(at, 2), ReadU16(at))

\* C25: in ephemeral mode processServerKeyExchange returns the
\* invalid-ServerKeyExchange error when the modulus or the exponent field is cut
\* short or the declared exponent length exceeds 4, then leaving publicKey and
\* verifyError as they were and calling no verifyParameters; otherwise it sets
\* publicKey to the parsed (N, E) and authenticates exactly the first
\* 2+|N|+2+|E| bytes against the bytes that remain.
RsaEphemeralSkxParseStep ==
    RsaEphemeralSkxStep =>
        LET m == ret'.cli.in
            rest == AfterFields(m, 2)
            v == verifyParameters(cli.auth, config, hello, cert,
                                  Prefix(m, Len(m) - Len(rest)), rest)
        IN IF RsaSkxRefused(m)
           THEN /\ ret'.cli.err = errServerKeyExchange
                /\ ~ret'.cli.verifyCalled
                /\ cli'.publicKey = cli.publicKey
                /\ cli'.verifyError = cli.verifyError
           ELSE /\ cli'.publicKey = [type |-> "rsa", N |-> SetBytes(RsaSkxField(m, 1)),
                                     E |-> SetBytes(RsaSkxField(m, 2))]
                /\ Len(m) - Len(rest) = 2 + Len(RsaSkxField(m, 1)) + 2 + Len(RsaSkxField(m, 2))
                /\ ret'.cli.verifyCalled
                /\ cli'.verifyError = v.err
                /\ cli'.auth = v.auth
                /\ ret'.cli.digest = v.digest
                /\ ret'.cli.err = IF config.InsecureSkipVerify THEN ErrNil ELSE v.err

RsaEphemeralSkxParse == [][RsaEphemeralSkxParseStep]_vars

\* a client holding the key and the verify error of a first ServerKeyExchange
\* has refused one whose exponent is declared five bytes long
RsaSkxLongExponentWitness ==
    /\ role = [side |-> "client", family |-> "rsa"]
    /\ cli.ephemeral
    /\ ret.cli.op = "processServerKeyExchange"
    /\ AfterFields(ret.cli.in, 1) # NoBytes
    /\ Len(AfterFields(ret.cli.in, 1)) >= 7
    /\ ReadU16(AfterFields(ret.cli.in, 1)) = 5
    /\ ret.cli.err = errServerKeyExchange
    /\ cli.publicKey # NoKey
    /\ cli.verifyError # ErrNil

\* a client has taken (N, E) from a ServerKeyExchange whose signature over the
\* two fields verifies
RsaSkxParsedWitness ==
    /\ role = [side |-> "client", family |-> "rsa"]
    /\ cli.ephemeral
    /\ ret.cli.op = "processServerKeyExchange"
    /\ ~RsaSkxRefused(ret.cli.in)
    /\ cli.auth.kind # "nil"
    /\ ret.cli.checked
    /\ ret.cli.err = ErrNil
    /\ cli.verifyError = ErrNil
    /\ cli.publicKey = [type |-> "rsa", N |-> 3127, E |-> 7]

(***************************************************************************)
(* SpecLoop: the DHE generateClientKeyExchange with the resampling loop of *)
(* "g3", "g5", "g7" taken one iteration at a time.  pc = "loop" while the  *)
(* call is inside `for !done`; ret.cli.gen is the local gen, ret.cli.again *)
(* tells that a draw was thrown away.  SpecLoopFair adds the fairness of   *)
(* the random source: a draw the loop accepts, possible at every           *)
(* iteration, is not withheld for ever.                                    *)
(***************************************************************************)
LoopKexConfigs == {"g3", "g5", "g7", ""}

\* the ServerKeyExchange messages: p with p-1 divisible by 3 (7, 16, 31, 43), by
\* 5 (11, 16, 31), by 7 (29, 43), by none (23), p = 1, and a message cut after p
LoopSkx ==
    {DhParamsBytes(<<p, 2, 1>>) : p \in {7, 11, 16, 23, 29, 31, 43}}
    \cup {DhParamsBytes(<<1, 2, 5>>), <<0, 1, 7>>}

InitLoop ==
    /\ \E kex \in LoopKexConfigs :
         config = Config(kex, FALSE, DefaultSigAndHashes, DefaultSigAndHashes, <<>>)
    /\ cert = [PrivateKey |-> RsaKeyA, PublicKey |-> RsaKeyA]
    /\ hello = Hello(VersionTLS12, DefaultSigAndHashes, <<>>)
    /\ srv = NewDheKeyAgreement(NilAuth)
    /\ cli = NewDheKeyAgreement(NilAuth)
    /\ role = [side |-> "client", family |-> "loop"]
    /\ skx = NoBytes
    /\ ckx = NoBytes
    /\ ret = [srv |-> NoResult, cli |-> NoResult]
    /\ pc = "ready"
    /\ calls = 0

LoopMayCall ==
    /\ role.family = "loop"
    /\ pc = "ready"
    /\ calls < MaxCalls

\* lines 861 and 883, 904, 923: the call reaches `for !done`
LoopReached(ka, cfg) ==
    /\ ka.p # Nil /\ ka.g # Nil /\ ka.yTheirs # Nil
    /\ SubgroupOrder(cfg.KexConfig) # 0
    /\ (ka.p - 1) % SubgroupOrder(cfg.KexConfig) = 0

LoopCliProcess ==
    /\ LoopMayCall
    /\ \E m \in LoopSkx :
         LET r == dheProcessServerKeyExchange(cli, config, hello, cert, m)
         IN /\ cli' = r.ka
            /\ ret' = [ret EXCEPT !.cli = Result("processServerKeyExchange", m, r.err,
                                      NoBytes, NoBytes, r.digest, r.verifyCalled, r.checked)]
    /\ calls' = calls + 1
    /\ UNCHANGED <<config, hello, cert, srv, skx, ckx, pc, role>>

\* a call that returns without reaching the loop
LoopCliGenerate ==
    /\ LoopMayCall
    /\ ~LoopReached(cli, config)
    /\ \E h \in DheClientDraws(cli, config) \cap {0, 3} :
         LET r == dheGenerateClientKeyExchange(cli, config, h)
         IN /\ cli' = r.ka
            /\ ckx' = r.ckx
            /\ ret' = [ret EXCEPT !.cli = Result("generateClientKeyExchange", NoBytes,
                                      r.err, r.pms, r.ckx, NoBytes, FALSE, FALSE)]
            /\ pc' = IF r.err = Panic THEN "crashed" ELSE pc
    /\ calls' = calls + 1
    /\ UNCHANGED <<config, hello, cert, srv, skx, role>>

\* the call up to `for !done`: gen := new(big.Int), done := false
LoopEnter ==
    /\ LoopMayCall
    /\ LoopReached(cli, config)
    /\ pc' = "loop"
    /\ ret' = [ret EXCEPT !.cli = [op |-> "generateClientKeyExchange", gen |-> 0,
                                   again |-> FALSE]]
    /\ calls' = calls + 1
    /\ UNCHANGED <<config, hello, cert, srv, cli, skx, ckx, role>>

\* an iteration that keeps gen in ka.yOurs
LoopResampleStored ==
    /\ role.family = "loop"
    /\ pc = "loop"
    /\ \E h \in 0..(cli.p - 1) :
         LET gen == SubgroupElement(cli.p, SubgroupOrder(config.KexConfig), h)
         IN /\ gen = 1
            /\ cli' = [cli EXCEPT !.yOurs = gen]
            /\ ret' = [ret EXCEPT !.cli.gen = gen, !.cli.again = TRUE]
    /\ UNCHANGED <<config, hello, cert, srv, skx, ckx, pc, calls, role>>

\* an iteration whose draw h gives gen = 1: done stays false
LoopResample ==
    /\ role.family = "loop"
    /\ pc = "loop"
    /\ \E h \in 0..(cli.p - 1) :
         LET gen == SubgroupElement(cli.p, SubgroupOrder(config.KexConfig), h)
         IN /\ gen = 1
            /\ ret' = [ret EXCEPT !.cli.gen = gen, !.cli.again = TRUE]
    /\ UNCHANGED <<config, hello, cert, srv, cli, skx, ckx, pc, calls, role>>

\* an iteration whose draw h gives gen # 1, and the rest of the call
LoopAccept ==
    /\ role.family = "loop"
    /\ pc = "loop"
    /\ \E h \in 0..(cli.p - 1) :
         LET gen == SubgroupElement(cli.p, SubgroupOrder(config.KexConfig), h)
             r == DheCkxFinish(cli, gen, 0, Bytes(gen))
         IN /\ gen # 1
            /\ cli' = r.ka
            /\ ckx' = r.ckx
            /\ ret' = [ret EXCEPT !.cli = Result("generateClientKeyExchange", NoBytes,
                                      r.err, r.pms, r.ckx, NoBytes, FALSE, FALSE)
                                   @@ [gen |-> gen, again |-> ret.cli.again]]
    /\ pc' = "ready"
    /\ UNCHANGED <<config, hello, cert, srv, skx, calls, role>>

NextLoop ==
    \/ LoopCliProcess
    \/ LoopCliGenerate
    \/ LoopEnter
    \/ LoopResample
    \/ LoopAccept

SpecLoop == InitLoop /\ [][NextLoop]_vars

SpecLoopFair == SpecLoop /\ WF_vars(LoopAccept)

\* the call has returned a ClientKeyExchange
LoopReturned ==
    /\ pc = "ready"
    /\ ret.cli.op = "generateClientKeyExchange"
    /\ ret.cli.err = ErrNil
    /\ Len(ckx) >= 2
    /\ ckx = ret.cli.out
    /\ ckx = LenPrefixed(cli.yOurs)

\* an iteration that stays in the loop leaves the key agreement and the messages
\* as they are
LoopIterationStep ==
    (pc = "loop" /\ pc' = "loop")
        => /\ cli' = cli
           /\ srv' = srv
           /\ ckx' = ckx
           /\ skx' = skx

\* C26: for KexConfig "g3", "g5", "g7" with k dividing p-1 the resampling loop
\* of generateClientKeyExchange terminates: under a fair random source, which
\* in the end yields an h in [0, p) with h^((p-1)/k) mod p # 1, the call
\* returns a ClientKeyExchange, and an iteration whose h maps to the identity
\* changes no state of the key agreement.
ResamplingLoopTerminates ==
    /\ (pc = "loop") ~> LoopReturned
    /\ [][LoopIterationStep]_vars

\* a call has returned a ClientKeyExchange after throwing a draw away
ResamplingLoopWitness ==
    /\ LoopReturned
    /\ "again" \in DOMAIN ret.cli
    /\ ret.cli.again
    /\ config.KexConfig \in {"g3", "g5", "g7"}
    /\ (cli.p - 1) % SubgroupOrder(config.KexConfig) = 0
    /\ cli.yOurs # 1

\* the loop has thrown a draw away and not yet returned
ResamplingLoopInsideWitness ==
    /\ pc = "loop"
    /\ ret.cli.again
    /\ ret.cli.gen = 1
    /\ cli.yOurs = Nil

(***************************************************************************)
(* The valid flag of a signedKeyAgreement.                                 *)
(***************************************************************************)
\* the client's auth is signed; its verifyError is what its most recent
\* verifyParameters call returned, processServerKeyExchange being the only caller
CliSigned == role.side = "client" /\ cli.auth.kind = "signed"

\* C27: valid of a signedKeyAgreement is true only if the most recent
\* signParameters or verifyParameters call on the object succeeded; a
\* verifyParameters call that returns an error leaves valid false, also when an
\* earlier call on the same object had set it.
ValidOnlyAfterSuccess ==
    (CliSigned /\ cli.auth.valid) => cli.verifyError = ErrNil

\* the second verifyParameters call on a client's auth has returned an error and
\* valid, set by the first, is still true
ValidStaleWitness ==
    /\ CliSigned
    /\ calls = 2
    /\ ret.cli.op = "processServerKeyExchange"
    /\ ret.cli.verifyCalled
    /\ ret.cli.err # ErrNil
    /\ cli.verifyError # ErrNil
    /\ cli.auth.valid

\* what holds of valid: it is never reset, and a step sets it only when that
\* step's signParameters or verifyParameters call succeeded
ValidSetOnSuccessStep ==
    /\ (CliSigned /\ cli'.auth.valid # cli.auth.valid)
           => /\ cli'.auth.valid
              /\ ret'.cli.op = "processServerKeyExchange"
              /\ ret'.cli.verifyCalled
              /\ cli'.verifyError = ErrNil
    /\ (role.side = "server" /\ srv.auth.kind = "signed" /\ srv'.auth.valid # srv.auth.valid)
           => /\ srv'.auth.valid
              /\ ret'.srv.op = "generateServerKeyExchange"
              /\ ret'.srv.err = ErrNil

ValidSetOnSuccess == [][ValidSetOnSuccessStep]_vars

====
